---- MODULE Spec2Model ----
(***************************************************************************)
(* Workflow execution-tracking runtime of nova_cat                         *)
(* (src/services/workflow_runtime): idempotency locks, JobRun and Attempt  *)
(* records kept in one DynamoDB table, and error classification.           *)
(*                                                                         *)
(* The table is a function from <<PK, SK>> to an item; an item is a record *)
(* whose DOMAIN is the set of attributes it has, so attribute_exists and   *)
(* attribute_not_exists are membership tests on DOMAIN.  Every runtime     *)
(* function is one request to the store and therefore one atomic action.   *)
(***************************************************************************)
EXTENDS Integers, Sequences, FiniteSets, TLC

VARIABLES
    table,      \* the DynamoDB table: <<PK, SK>> -> item
    clock,      \* wall clock, whole seconds
    last,       \* the most recent step: operation, key, return value, exception
    held,       \* held[i][key]: expires_at of the lock invocation i acquired and has not released, 0 if none
    acqTrue,    \* acqTrue[key]: acquire_lock calls that returned True since the key's item was last absent (saturates at 2)
    acqFalse,   \* acqFalse[key]: acquire_lock calls that returned False since then (saturates at 2)
    finalizeOk, \* <<PK, SK>> -> number of finalize_job_run calls that returned normally (saturates at 2)
    finishOk,   \* <<PK, SK>> -> number of record_attempt_finished calls that returned normally (saturates at 2)
    heap,       \* the Python dicts of the envelope functions: address -> dict
    envelope,   \* the address of the envelope the next envelope call is given
    logs,       \* the configured LOG_LEVEL and the JSON payloads emitted, oldest first
    router      \* the task_router invocation: its position, event and recorder

vars == <<table, clock, last, held, acqTrue, acqFalse, finalizeOk, finishOk, heap, envelope, logs, router>>

lockGhosts == <<held, acqTrue, acqFalse>>
recordGhosts == <<finalizeOk, finishOk>>

----------------------------------------------------------------------------
(* Bounds *)

MaxClock == 1
NumInvocations == 2
MaxJobRuns == 1
MaxAttempts == 1
MaxMsgLen == 3
MaxCalls == 2

Invocations == 1..NumInvocations
LockKeys == {"k1"}
TtlSeconds == {1, 2}

\* Python's None, for optional string arguments and map values
None == "<None>"

\* a value the `or` of Python replaces by its default: None or the empty string
Falsy(x) == x = None \/ x = ""

NovaIds == {"NOVA1"}
WorkflowNames == {"wf"}
JobRunIds == {"jr1"}
Uuids == {"u1"}
TaskNames == {"download_bytes"}
AttemptNos == {1, 2}

\* every string release_lock is called with: the lock keys, and a key that is
\* spelled like the partition key of the JobRun and Attempt records
AllLockKeys == LockKeys \cup NovaIds

----------------------------------------------------------------------------
(* Store errors *)

NoFault == "none"
Faults == {"ThrottlingException"}

ConditionalCheckFailed == "ConditionalCheckFailedException"

\* An exception: class name, botocore error code and HTTP status (ClientError
\* only), and str(exc) as a sequence of tokens, a token being a whitespace
\* character or a piece of text without whitespace.
NoExc == [kind |-> "", code |-> "", http |-> 0, msg |-> <<>>]

\* botocore: "An error occurred (<code>) when calling the <op> operation: <message>"
ClientError(code, http, message) ==
    [kind |-> "ClientError", code |-> code, http |-> http,
     msg |-> <<"An", " ", "error", " ", "occurred", " ", "(" \o code \o "):", " ">> \o message]

\* the error the store answers with when the ConditionExpression is false
ConditionFailure == ClientError(ConditionalCheckFailed, 400, <<"exists">>)

\* the error of a request the store did not carry out
FaultError(fault) ==
    IF fault = "ThrottlingException"
    THEN ClientError(fault, 400, <<"slow", " ", "down">>)
    ELSE ClientError(fault, 500, <<"internal">>)

----------------------------------------------------------------------------
(* Generic helpers *)

Count(f, k) == IF k \in DOMAIN f THEN f[k] ELSE 0

Bump(f, k) ==
    [x \in DOMAIN f \cup {k} |-> IF x = k THEN (IF Count(f, k) < 2 THEN Count(f, k) + 1 ELSE 2) ELSE f[x]]

Sat(n) == IF n < 2 THEN n + 1 ELSE 2

\* put_item: the item replaces whatever is stored under its key
PutItem(tbl, item) ==
    [k \in DOMAIN tbl \cup {<<item.PK, item.SK>>} |->
        IF k = <<item.PK, item.SK>> THEN item ELSE tbl[k]]

DeleteItem_and_named_partition(tbl, key) ==
    [k \in {x \in DOMAIN tbl : x # key /\ "LOCK#" \o x[1] # key[1]} |-> tbl[k]]

DeleteItem_by_sort_key(tbl, key) == [k \in {x \in DOMAIN tbl : x[2] # key[2]} |-> tbl[k]]

\* delete_item: removing an absent key is a no-op
DeleteItem(tbl, key) == [k \in DOMAIN tbl \ {key} |-> tbl[k]]

\* dict.update: the attributes of u override those of d
Update(d, u) == [a \in DOMAIN d \cup DOMAIN u |-> IF a \in DOMAIN u THEN u[a] ELSE d[a]]

DropNone_keep_none(m) == m

\* {k: v for k, v in m.items() if v is not None}
DropNone(m) == [a \in {x \in DOMAIN m : m[x] # None} |-> m[a]]

UpdateItem_whole_partition(tbl, key, sets) ==
    [k \in DOMAIN tbl \cup {key} |->
        IF k = key
        THEN Update(IF key \in DOMAIN tbl THEN tbl[key] ELSE [PK |-> key[1], SK |-> key[2]], sets)
        ELSE IF k[1] = key[1] THEN Update(tbl[k], sets) ELSE tbl[k]]

\* update_item with SET: writes the attributes onto the item of the key, and
\* creates the item (key attributes only) when the key is absent
UpdateItem(tbl, key, sets) ==
    LET old == IF key \in DOMAIN tbl THEN tbl[key] ELSE [PK |-> key[1], SK |-> key[2]]
    IN  [k \in DOMAIN tbl \cup {key} |-> IF k = key THEN Update(old, sets) ELSE tbl[k]]

Step(op, key, ret, exc, fault) ==
    [op |-> op, key |-> key, ret |-> ret, exc |-> exc, fault |-> fault]

NoKey == <<"", "">>

----------------------------------------------------------------------------
(* idempotency.py *)

_utc_now_iso == "T" \o ToString(clock) \o ".000000+00:00"

_lock_pk(key) == "LOCK#" \o key

LockKeyOf(key) == <<_lock_pk(key), "LOCK">>

acquire_condition_overwrite(k) == TRUE

acquire_condition_or_expired(k) == k \notin DOMAIN table \/ table[k].expires_at < clock

\* ConditionExpression="attribute_not_exists(PK)"
acquire_condition(k) == k \notin DOMAIN table

acquire_except_swallow(exc) == "False"

\* except ClientError as e: return False on the conditional-check code, raise otherwise
acquire_except(exc) == IF exc.code = ConditionalCheckFailed THEN "False" ELSE "raise"

acquire_lock(i, key, ttl_seconds, fault) ==
    LET now_epoch == clock
        expires_at == now_epoch + ttl_seconds
        item == [PK |-> _lock_pk(key), SK |-> "LOCK", entity_type |-> "LOCK",
                 lock_key |-> key, created_at |-> _utc_now_iso,
                 expires_at |-> expires_at]
        k == <<item.PK, item.SK>>
    IN  /\ UNCHANGED <<clock, recordGhosts, heap, envelope, logs, router>>
        /\ IF fault # NoFault
           THEN /\ last' = Step("acquire_lock", k, acquire_except(FaultError(fault)),
                                 IF acquire_except(FaultError(fault)) = "raise"
                                 THEN FaultError(fault) ELSE NoExc, fault)
                /\ UNCHANGED <<table, lockGhosts>>
           ELSE IF acquire_condition(k)
           THEN /\ table' = PutItem(table, item)
                /\ last' = Step("acquire_lock", k, "True", NoExc, fault)
                /\ held' = [held EXCEPT ![i][key] = expires_at]
                /\ acqTrue' = [acqTrue EXCEPT ![key] = Sat(@)]
                /\ UNCHANGED acqFalse
           ELSE /\ last' = Step("acquire_lock", k, acquire_except(ConditionFailure),
                                 IF acquire_except(ConditionFailure) = "raise"
                                 THEN ConditionFailure ELSE NoExc, fault)
                /\ acqFalse' = [acqFalse EXCEPT ![key] = Sat(@)]
                /\ UNCHANGED <<table, held, acqTrue>>

release_lock(i, key, fault) ==
    LET k == LockKeyOf(key)
    IN  /\ UNCHANGED <<clock, recordGhosts, heap, envelope, logs, router>>
        /\ IF fault # NoFault
           THEN /\ last' = Step("release_lock", k, "raise", FaultError(fault), fault)
                /\ UNCHANGED <<table, lockGhosts>>
           ELSE /\ table' = DeleteItem(table, k)
                /\ last' = Step("release_lock", k, "None", NoExc, fault)
                /\ held' = [held EXCEPT ![i][key] = 0]
                /\ acqTrue' = [acqTrue EXCEPT ![key] = 0]
                /\ acqFalse' = [acqFalse EXCEPT ![key] = 0]

TTLSweep_any_time(key) ==
    LET k == LockKeyOf(key)
    IN  /\ k \in DOMAIN table
        /\ table' = DeleteItem(table, k)
        /\ last' = Step("ttl_delete", k, "None", NoExc, NoFault)
        /\ acqTrue' = [acqTrue EXCEPT ![key] = 0]
        /\ acqFalse' = [acqFalse EXCEPT ![key] = 0]
        /\ UNCHANGED <<clock, held, recordGhosts, heap, envelope, logs, router>>

\* the store's TTL sweep: removes a lock item at or after its expires_at
TTLSweep(key) ==
    LET k == LockKeyOf(key)
    IN  /\ k \in DOMAIN table
        /\ clock >= table[k].expires_at
        /\ table' = DeleteItem(table, k)
        /\ last' = Step("ttl_delete", k, "None", NoExc, NoFault)
        /\ acqTrue' = [acqTrue EXCEPT ![key] = 0]
        /\ acqFalse' = [acqFalse EXCEPT ![key] = 0]
        /\ UNCHANGED <<clock, held, recordGhosts, heap, envelope, logs, router>>

Tick ==
    /\ clock < MaxClock
    /\ clock' = clock + 1
    /\ last' = Step("tick", NoKey, "None", NoExc, NoFault)
    /\ UNCHANGED <<table, lockGhosts, recordGhosts, heap, envelope, logs, router>>

----------------------------------------------------------------------------
(* jobrun.py *)

SCHEMA_VERSION == "1"

\* datetime.now(UTC).replace(microsecond=0).isoformat().replace("+00:00", "Z")
Iso(t) == "T" \o ToString(t) \o "Z"

_iso_utc_now == Iso(clock)

Timestamps == {Iso(t) : t \in 0..MaxClock}


_jobrun_sk(workflow_name, started_at, job_run_id) ==
    "JOBRUN#" \o workflow_name \o "#" \o started_at \o "#" \o job_run_id

JobRunKeySpace ==
    {<<n, _jobrun_sk(w, s, j)>> : n \in NovaIds, w \in WorkflowNames,
                                  s \in Timestamps, j \in JobRunIds \cup Uuids}

JobRunKeys == DOMAIN table \cap JobRunKeySpace

\* str(uuid.uuid4()): an identifier no JobRun key in the table carries yet
FreshUuids ==
    {u \in Uuids : \A n \in NovaIds, w \in WorkflowNames, s \in Timestamps :
                       <<n, _jobrun_sk(w, s, u)>> \notin DOMAIN table}

\* the model keeps at most MaxJobRuns JobRun items
RoomForJobRun(key) == key \in DOMAIN table \/ Cardinality(JobRunKeys) < MaxJobRuns

begin_condition_overwrite(key) == TRUE

\* ConditionExpression="attribute_not_exists(PK) AND attribute_not_exists(SK)"
begin_condition(key) == key \notin DOMAIN table

begin_job_run(nova_id, workflow_name, execution_arn, correlation_id, idempotency_key, identifiers, started_at, job_run_id, uuid4, fault) ==
    LET jr_id == IF Falsy(job_run_id) THEN uuid4 ELSE job_run_id
        now == IF Falsy(started_at) THEN _iso_utc_now ELSE started_at
        sk == _jobrun_sk(workflow_name, now, jr_id)
        base == [PK |-> nova_id, SK |-> sk, entity_type |-> "JobRun",
                 schema_version |-> SCHEMA_VERSION, job_run_id |-> jr_id,
                 workflow_name |-> workflow_name, execution_arn |-> execution_arn,
                 status |-> "RUNNING", started_at |-> now,
                 correlation_id |-> correlation_id, idempotency_key |-> idempotency_key,
                 created_at |-> now, updated_at |-> now]
        item == IF DOMAIN identifiers # {} THEN Update(base, DropNone(identifiers)) ELSE base
        key == <<item.PK, item.SK>>
    IN  /\ RoomForJobRun(key)
        /\ UNCHANGED <<clock, lockGhosts, recordGhosts, heap, envelope, logs, router>>
        /\ IF fault # NoFault
           THEN /\ last' = Step("begin_job_run", key, "raise", FaultError(fault), fault)
                /\ UNCHANGED table
           ELSE IF begin_condition(key)
           THEN /\ table' = PutItem(table, item)
                /\ last' = Step("begin_job_run", key, jr_id, NoExc, fault)
           ELSE /\ last' = Step("begin_job_run", key, "raise", ConditionFailure, fault)
                /\ UNCHANGED table

finalize_condition_item_exists(key) == key \in DOMAIN table

finalize_condition_new_item_refused(key) ==
    key \in DOMAIN table /\ "ended_at" \notin DOMAIN table[key]

\* ConditionExpression="attribute_not_exists(ended_at)"
finalize_condition(key) == ~(key \in DOMAIN table /\ "ended_at" \in DOMAIN table[key])

finalize_job_run(nova_id, workflow_name, started_at, job_run_id, status, ended_at, outcome, summary_fields, fault) ==
    LET now == IF Falsy(ended_at) THEN _iso_utc_now ELSE ended_at
        sk == _jobrun_sk(workflow_name, started_at, job_run_id)
        key == <<nova_id, sk>>
        sets0 == [status |-> status, ended_at |-> now, updated_at |-> now]
        sets1 == IF outcome # None THEN Update(sets0, [outcome |-> outcome]) ELSE sets0
        sets2 == IF DOMAIN summary_fields # {}
                 THEN Update(sets1, [summary |-> DropNone(summary_fields)])
                 ELSE sets1
    IN  /\ RoomForJobRun(key)
        /\ UNCHANGED <<clock, lockGhosts, finishOk, heap, envelope, logs, router>>
        /\ IF fault # NoFault
           THEN /\ last' = Step("finalize_job_run", key, "raise", FaultError(fault), fault)
                /\ UNCHANGED <<table, finalizeOk>>
           ELSE IF finalize_condition(key)
           THEN /\ table' = UpdateItem(table, key, sets2)
                /\ finalizeOk' = Bump(finalizeOk, key)
                /\ last' = Step("finalize_job_run", key, "None", NoExc, fault)
           ELSE /\ last' = Step("finalize_job_run", key, "raise", ConditionFailure, fault)
                /\ UNCHANGED <<table, finalizeOk>>

----------------------------------------------------------------------------
(* attempt.py *)

_attempt_sk(job_run_id, task_name, attempt_no, timestamp) ==
    "ATTEMPT#" \o job_run_id \o "#" \o task_name \o "#" \o ToString(attempt_no)
        \o "#" \o timestamp

AttemptKeySpace ==
    {<<n, _attempt_sk(j, t, a, s)>> : n \in NovaIds, j \in JobRunIds, t \in TaskNames,
                                      a \in AttemptNos, s \in Timestamps}

AttemptKeys == DOMAIN table \cap AttemptKeySpace

\* the step leaves at most n Attempt items in the table
AttemptRoom(n) == Cardinality(DOMAIN table' \cap AttemptKeySpace) <= n

start_condition_overwrite(key) == TRUE

\* ConditionExpression="attribute_not_exists(PK) AND attribute_not_exists(SK)"
start_condition(key) == key \notin DOMAIN table

record_attempt_started(nova_id, job_run_id, task_name, attempt_no, started_at, identifiers, fault) ==
    LET now == IF Falsy(started_at) THEN _iso_utc_now ELSE started_at
        sk == _attempt_sk(job_run_id, task_name, attempt_no, now)
        base == [PK |-> nova_id, SK |-> sk, entity_type |-> "Attempt",
                 schema_version |-> SCHEMA_VERSION, job_run_id |-> job_run_id,
                 task_name |-> task_name, attempt_no |-> attempt_no,
                 status |-> "STARTED", started_at |-> now,
                 created_at |-> now, updated_at |-> now]
        item == IF DOMAIN identifiers # {} THEN Update(base, DropNone(identifiers)) ELSE base
        key == <<item.PK, item.SK>>
    IN  /\ UNCHANGED <<clock, lockGhosts, recordGhosts, heap, envelope, logs, router>>
        /\ IF fault # NoFault
           THEN /\ last' = Step("record_attempt_started", key, "raise", FaultError(fault), fault)
                /\ UNCHANGED table
           ELSE IF start_condition(key)
           THEN /\ table' = PutItem(table, item)
                /\ last' = Step("record_attempt_started", key, sk, NoExc, fault)
           ELSE /\ last' = Step("record_attempt_started", key, "raise", ConditionFailure, fault)
                /\ UNCHANGED table

finish_condition_no_later_finished(key) ==
    /\ key \in DOMAIN table
    /\ \A k \in AttemptKeys \ {key} :
          table[k].attempt_no > table[key].attempt_no => table[k].status = "STARTED"

\* ConditionExpression="attribute_exists(PK) AND attribute_exists(SK)"
finish_condition(key) == key \in DOMAIN table

record_attempt_finished(nova_id, attempt_sk, status, duration_ms, ended_at, error_fields, fault) ==
    LET now == IF Falsy(ended_at) THEN _iso_utc_now ELSE ended_at
        key == <<nova_id, attempt_sk>>
        sets0 == [status |-> status, finished_at |-> now, duration_ms |-> duration_ms,
                  updated_at |-> now]
        cleaned == DropNone(error_fields)
        sets1 == IF DOMAIN error_fields # {} /\ DOMAIN cleaned # {}
                 THEN Update(sets0, [error |-> cleaned])
                 ELSE sets0
    IN  /\ UNCHANGED <<clock, lockGhosts, finalizeOk, heap, envelope, logs, router>>
        /\ IF fault # NoFault
           THEN /\ last' = Step("record_attempt_finished", key, "raise", FaultError(fault), fault)
                /\ UNCHANGED <<table, finishOk>>
           ELSE IF finish_condition(key)
           THEN /\ table' = UpdateItem(table, key, sets1)
                /\ finishOk' = Bump(finishOk, key)
                /\ last' = Step("record_attempt_finished", key, "None", NoExc, fault)
           ELSE /\ last' = Step("record_attempt_finished", key, "raise", ConditionFailure, fault)
                /\ UNCHANGED <<table, finishOk>>

----------------------------------------------------------------------------
(* errors.py *)

\* the classes an exception of class `kind` is an instance of
Mro(kind) ==
    CASE kind = "SuspectDataError" -> {"SuspectDataError", "WorkflowRuntimeError", "Exception"}
      [] kind = "ValidationError" -> {"ValidationError", "WorkflowRuntimeError", "Exception"}
      [] kind = "EnvelopeValidationError" -> {"EnvelopeValidationError", "ValueError", "Exception"}
      [] kind = "ContractValidationError" -> {"ContractValidationError", "Exception"}
      [] kind = "SuspectValueError" ->
            {"SuspectValueError", "SuspectDataError", "WorkflowRuntimeError", "ValueError", "Exception"}
      [] OTHER -> {kind, "Exception"}

IsInstance(exc, classes) == Mro(exc.kind) \cap classes # {}

IsSpace(c) == c \in {" ", "\t", "\n"}

RECURSIVE LStrip(_)
LStrip(msg) == IF msg # <<>> /\ IsSpace(Head(msg)) THEN LStrip(Tail(msg)) ELSE msg

RECURSIVE RStrip(_)
RStrip(msg) ==
    IF msg # <<>> /\ IsSpace(msg[Len(msg)]) THEN RStrip(SubSeq(msg, 1, Len(msg) - 1)) ELSE msg

\* _WHITESPACE_RE.sub(" ", ...): every run of whitespace becomes one space
RECURSIVE Collapse(_)
Collapse(msg) ==
    IF msg = <<>> THEN <<>>
    ELSE IF IsSpace(Head(msg))
         THEN <<" ">> \o Collapse(LStrip(msg))
         ELSE <<Head(msg)>> \o Collapse(Tail(msg))

_normalize_message_strip_only(msg) == RStrip(LStrip(msg))

_normalize_message(msg) == Collapse(RStrip(LStrip(msg)))

\* hashlib.sha256(material.encode("utf-8")).hexdigest()[:16]; the digest is
\* kept symbolic: equal material, equal digest
Sha256Hex16(material) == <<"sha256/16">> \o material

\* the argument is an exception, or (kind "str") a plain string
fingerprint_error(exc) ==
    LET kind == exc.kind
        msg == _normalize_message(exc.msg)
        material == IF kind = "str" THEN msg
                    ELSE IF IsInstance(exc, {"ClientError"})
                    THEN <<kind, ":", exc.code, ":">> \o msg
                    ELSE <<kind, ":">> \o msg
    IN  Sha256Hex16(material)

_is_throttling(code) ==
    code \in {"Throttling", "ThrottlingException", "ProvisionedThroughputExceededException",
              "RequestLimitExceeded", "TooManyRequestsException", "SlowDown"}

RetryableHttpStatus_every_5xx == {429} \cup (500..599)

RetryableHttpStatus == {429, 500, 502, 503, 504}

\* str(exc) or <fallback>
StrOr(exc, fallback) == IF exc.msg # <<>> THEN exc.msg ELSE <<fallback>>

classify_exception_validation_first(exc) ==
    IF IsInstance(exc, {"ValidationError", "ValueError", "TypeError"})
    THEN <<"TERMINAL", fingerprint_error(exc), StrOr(exc, exc.kind)>>
    ELSE IF IsInstance(exc, {"SuspectDataError"})
    THEN <<"QUARANTINE", fingerprint_error(exc), StrOr(exc, exc.kind)>>
    ELSE IF IsInstance(exc, {"ClientError"})
    THEN IF _is_throttling(exc.code) \/ exc.http \in RetryableHttpStatus
         THEN <<"RETRYABLE", fingerprint_error(exc),
                StrOr(exc, IF exc.code # "" THEN exc.code ELSE exc.kind)>>
         ELSE <<"TERMINAL", fingerprint_error(exc),
                StrOr(exc, IF exc.code # "" THEN exc.code ELSE exc.kind)>>
    ELSE <<"RETRYABLE", fingerprint_error(exc), StrOr(exc, exc.kind)>>

classify_exception_without_client_branch(exc) ==
    IF IsInstance(exc, {"SuspectDataError"})
    THEN <<"QUARANTINE", fingerprint_error(exc), StrOr(exc, exc.kind)>>
    ELSE IF IsInstance(exc, {"ValidationError", "ValueError", "TypeError"})
    THEN <<"TERMINAL", fingerprint_error(exc), StrOr(exc, exc.kind)>>
    ELSE <<"RETRYABLE", fingerprint_error(exc), StrOr(exc, exc.kind)>>

classify_exception(exc) ==
    IF IsInstance(exc, {"SuspectDataError"})
    THEN <<"QUARANTINE", fingerprint_error(exc), StrOr(exc, exc.kind)>>
    ELSE IF IsInstance(exc, {"ValidationError", "ValueError", "TypeError"})
    THEN <<"TERMINAL", fingerprint_error(exc), StrOr(exc, exc.kind)>>
    ELSE IF IsInstance(exc, {"ClientError"})
    THEN IF _is_throttling(exc.code) \/ exc.http \in RetryableHttpStatus
         THEN <<"RETRYABLE", fingerprint_error(exc),
                StrOr(exc, IF exc.code # "" THEN exc.code ELSE exc.kind)>>
         ELSE <<"TERMINAL", fingerprint_error(exc),
                StrOr(exc, IF exc.code # "" THEN exc.code ELSE exc.kind)>>
    ELSE <<"RETRYABLE", fingerprint_error(exc), StrOr(exc, exc.kind)>>

----------------------------------------------------------------------------
(* envelope.py *)

\* A Python value is a string: text, None, or the address ("@n") of a dict
\* in the heap.  A dict is a function from its keys to values.
\* The heap is a function from addresses to dicts; (a :> d) @@ h is h with d
\* stored at a.  Alloc(h, k) is the k-th address not yet in use.
Alloc(h, k) == "@" \o ToString(Cardinality(DOMAIN h) + k)

\* isinstance(v, dict)
_is_dict(h, v) == v \in DOMAIN h

\* d.get(k)
Get(d, k) == IF k \in DOMAIN d THEN d[k] ELSE None

deepcopy_alias(h, a) == [heap |-> h, ref |-> a]

\* copy.deepcopy(envelope): a new dict whose dict values are new dicts too
deepcopy(h, a) ==
    LET dicts == {k \in DOMAIN h[a] : _is_dict(h, h[a][k])}
        ks == IF dicts = {"input", "context"} THEN <<"input", "context">>
              ELSE IF dicts = {"input"} THEN <<"input">>
              ELSE IF dicts = {"context"} THEN <<"context">>
              ELSE <<>>
        new(k) == Alloc(h, 1 + (CHOOSE i \in 1..Len(ks) : ks[i] = k))
        top == [k \in DOMAIN h[a] |-> IF _is_dict(h, h[a][k]) THEN new(k) ELSE h[a][k]]
        h1 == [x \in DOMAIN h \cup {Alloc(h, 1)} \cup {new(ks[i]) : i \in 1..Len(ks)} |->
                 IF x \in DOMAIN h THEN h[x]
                 ELSE IF x = Alloc(h, 1) THEN top
                 ELSE h[h[a][CHOOSE k \in DOMAIN h[a] : _is_dict(h, h[a][k]) /\ new(k) = x]]]
    IN  [heap |-> h1, ref |-> Alloc(h, 1)]

\* the outcome of an envelope call: the heap it leaves, what it returns, what it raises
Outcome(h, ret, exc) == [heap |-> h, ret |-> ret, exc |-> exc]

EnvelopeValidationError(msg) ==
    [kind |-> "EnvelopeValidationError", code |-> "", http |-> 0, msg |-> msg]

envelope_ok_false_without_id(h, env) ==
    IF /\ _is_dict(h, env)
       /\ "input" \in DOMAIN h[env] /\ "context" \in DOMAIN h[env]
       /\ _is_dict(h, h[env].input) /\ _is_dict(h, h[env].context)
    THEN Outcome(h, IF Falsy(Get(h[h[env].context], "correlation_id")) THEN "False" ELSE "True",
                 NoExc)
    ELSE Outcome(h, "raise", EnvelopeValidationError(<<"Envelope must be a dict">>))

envelope_ok(h, env) ==
    IF ~_is_dict(h, env)
    THEN Outcome(h, "raise", EnvelopeValidationError(<<"Envelope must be a dict">>))
    ELSE IF "input" \notin DOMAIN h[env]
    THEN Outcome(h, "raise", EnvelopeValidationError(<<"Envelope missing required key: 'input'">>))
    ELSE IF "context" \notin DOMAIN h[env]
    THEN Outcome(h, "raise", EnvelopeValidationError(<<"Envelope missing required key: 'context'">>))
    ELSE IF ~_is_dict(h, h[env].input)
    THEN Outcome(h, "raise", EnvelopeValidationError(<<"Envelope['input'] must be a dict">>))
    ELSE IF ~_is_dict(h, h[env].context)
    THEN Outcome(h, "raise", EnvelopeValidationError(<<"Envelope['context'] must be a dict">>))
    ELSE IF Falsy(Get(h[h[env].context], "correlation_id"))
    THEN Outcome(h, "raise",
                 EnvelopeValidationError(<<"Envelope['context'].correlation_id is required">>))
    ELSE Outcome(h, "True", NoExc)

ensure_correlation_id_regenerate(h, env, uuid4) ==
    LET absent == "context" \notin DOMAIN h[env] \/ ~_is_dict(h, h[env].context)
        c1 == deepcopy(h, env)
        empty == Alloc(c1.heap, 1)
        h1 == IF absent
              THEN (c1.ref :> Update(c1.heap[c1.ref], [context |-> empty]))
                       @@ (empty :> <<>>) @@ c1.heap
              ELSE h
        c2 == deepcopy(h1, IF absent THEN c1.ref ELSE env)
        ctx == c2.heap[c2.ref].context
    IN  Outcome((ctx :> Update(c2.heap[ctx], [correlation_id |-> uuid4])) @@ c2.heap,
                c2.ref, NoExc)

ensure_correlation_id(h, env, uuid4) ==
    LET absent == "context" \notin DOMAIN h[env] \/ ~_is_dict(h, h[env].context)
        c1 == deepcopy(h, env)
        empty == Alloc(c1.heap, 1)
        h1 == IF absent
              THEN (c1.ref :> Update(c1.heap[c1.ref], [context |-> empty]))
                       @@ (empty :> <<>>) @@ c1.heap
              ELSE h
        env1 == IF absent THEN c1.ref ELSE env
        c2 == deepcopy(h1, env1)
        ctx == c2.heap[c2.ref].context
    IN  IF Falsy(Get(h1[h1[env1].context], "correlation_id"))
        THEN Outcome((ctx :> Update(c2.heap[ctx], [correlation_id |-> uuid4])) @@ c2.heap,
                     c2.ref, NoExc)
        ELSE Outcome(h1, env1, NoExc)

\* dict(x) of a value that is not a dict: an empty string gives {}, None and
\* any other string raise
with_context(h, env, updates) ==
    LET c == deepcopy(h, env)
        src == IF "context" \in DOMAIN c.heap[c.ref] THEN c.heap[c.ref].context ELSE ""
        ctx == Alloc(c.heap, 1)
        old == IF _is_dict(c.heap, src) THEN c.heap[src] ELSE <<>>
        h1 == (ctx :> Update(old, DropNone(updates))) @@ c.heap
    IN  IF ~_is_dict(c.heap, src) /\ src # ""
        THEN Outcome(c.heap, "raise",
                     [kind |-> IF src = None THEN "TypeError" ELSE "ValueError",
                      code |-> "", http |-> 0, msg |-> <<"dict()">>])
        ELSE Outcome((c.ref :> Update(h1[c.ref], [context |-> ctx])) @@ h1, c.ref, NoExc)

----------------------------------------------------------------------------
(* logging.py *)

_STANDARD_CTX_FIELDS ==
    {"workflow_name", "state_name", "execution_arn", "correlation_id", "job_run_id",
     "attempt_number", "nova_id", "data_product_id", "reference_id"}

\* the numeric value of a logging level name
LevelNo(name) ==
    CASE name = "DEBUG" -> 10
      [] name = "INFO" -> 20
      [] name = "WARNING" -> 30
      [] name = "ERROR" -> 40

\* getattr(logging, log_level().upper(), logging.INFO), with str.upper on
\* the level names the environment may hold
LoggerLevel(name) ==
    LET upper == CASE name = "info" -> "INFO"
                   [] name = "warning" -> "WARNING"
                   [] name = "verbose" -> "VERBOSE"
                   [] OTHER -> name
    IN  IF upper \in {"DEBUG", "INFO", "WARNING", "ERROR"} THEN LevelNo(upper) ELSE 20

_extract_ctx(h, env) ==
    IF ~_is_dict(h, env) \/ DOMAIN h[env] = {}
    THEN <<>>
    ELSE IF ~_is_dict(h, Get(h[env], "context"))
    THEN <<>>
    ELSE LET ctx == h[h[env].context]
         IN  [k \in {f \in _STANDARD_CTX_FIELDS : Get(ctx, f) # None} |-> ctx[k]]

\* the logs after _emit: the payload is appended when the logger's level lets it through
_emit(level, event, h, env, fields) ==
    LET payload0 == [ts |-> _utc_now_iso, level |-> level, event |-> event]
        payload1 == Update(payload0, _extract_ctx(h, env))
        payload2 == Update(payload1, DropNone(fields))
    IN  IF LevelNo(level) >= LoggerLevel(logs.LOG_LEVEL)
        THEN [logs EXCEPT !.records = Append(@, payload2)]
        ELSE logs

log_info(event, h, env, fields) == _emit("INFO", event, h, env, fields)

log_warn(event, h, env, fields) == _emit("WARNING", event, h, env, fields)

log_error(event, h, env, fields) == _emit("ERROR", event, h, env, fields)

\* returns time.monotonic(), the clock here
log_task_start(h, env, fields) == [logs |-> log_info("task_start", h, env, fields), ret |-> clock]

log_task_end(start_monotonic, h, env, outcome, fields) ==
    LET duration_ms == (clock - start_monotonic) * 1000
    IN  [logs |-> log_info("task_end", h, env,
                           Update(fields, [duration_ms |-> ToString(duration_ms),
                                           outcome |-> outcome])),
         ret |-> duration_ms]

----------------------------------------------------------------------------
(* nova_cat_common, task_router *)

\* a or b
Or(a, b) == IF Falsy(a) THEN b ELSE a

KeyError(k) == [kind |-> "KeyError", code |-> "", http |-> 0, msg |-> <<k>>]

\* JobRunRecorder.from_payload; utc_now_iso() is
\* datetime.now(UTC).isoformat().replace("+00:00", "Z")
from_payload(payload, execution_arn, uuid4) ==
    [nova_id |-> Or(Get(payload, "nova_id"),
                    Or(Get(payload, "resolved_nova_id"),
                       Or(Get(payload, "nova_id_placeholder"), "UNKNOWN_NOVA"))),
     workflow_name |-> Or(Get(payload, "workflow_name"),
                          Or(Get(payload, "workflow"), "UNKNOWN_WORKFLOW")),
     job_run_id |-> uuid4,
     started_at |-> Iso(clock),
     execution_arn |-> execution_arn,
     schema_version |-> IF "event_version" \in DOMAIN payload THEN payload.event_version ELSE "1"]

attempt_item_always_started(self, task_name, attempt_no, status, error) ==
    [PK |-> self.nova_id,
     SK |-> "ATTEMPT#" \o self.job_run_id \o "#" \o task_name \o "#"
                \o ToString(attempt_no) \o "#" \o Iso(clock),
     entity_type |-> "Attempt", schema_version |-> "1", job_run_id |-> self.job_run_id,
     task_name |-> task_name, attempt_no |-> attempt_no, status |-> "STARTED",
     created_at |-> Iso(clock), updated_at |-> Iso(clock)]

\* the item JobRunRecorder.attempt_started, attempt_succeeded and
\* attempt_failed put: they differ in the status and in the error_type and
\* error_message of attempt_failed
attempt_item(self, task_name, attempt_no, status, error) ==
    LET ts == Iso(clock)
    IN  Update([PK |-> self.nova_id,
                SK |-> "ATTEMPT#" \o self.job_run_id \o "#" \o task_name \o "#"
                           \o ToString(attempt_no) \o "#" \o ts,
                entity_type |-> "Attempt", schema_version |-> "1",
                job_run_id |-> self.job_run_id, task_name |-> task_name,
                attempt_no |-> attempt_no, status |-> status,
                created_at |-> ts, updated_at |-> ts],
               error)

_TASKS ==
    {"BeginJobRun", "NormalizeCandidateName", "CheckExistingNovaByName", "CreateNovaId",
     "UpsertMinimalNovaMetadata", "PublishIngestNewNova", "FinalizeJobRunSuccess"}

\* fn = resolve_task(state_name); out = fn(payload, recorder): the items the
\* step puts, in order, and what it returns or raises
RunTask(state_name, payload, recorder, uuid4) ==
    LET now == Iso(clock)
        result(puts, out, exc) == [puts |-> puts, out |-> out, exc |-> exc]
        missing(k) == result(<<>>, <<>>, KeyError(k))
        \* recorder.jobrun_started()
        jobrun == [PK |-> recorder.nova_id,
                   SK |-> "JOBRUN#" \o recorder.workflow_name \o "#" \o recorder.started_at
                              \o "#" \o recorder.job_run_id,
                   entity_type |-> "JobRun", schema_version |-> "1",
                   job_run_id |-> recorder.job_run_id,
                   workflow_name |-> recorder.workflow_name,
                   execution_arn |-> recorder.execution_arn, status |-> "RUNNING",
                   started_at |-> recorder.started_at, created_at |-> recorder.started_at,
                   updated_at |-> recorder.started_at]
        nova == [PK |-> payload.nova_id, SK |-> "NOVA", entity_type |-> "Nova",
                 schema_version |-> "1", nova_id |-> payload.nova_id,
                 primary_name |-> payload.candidate_name,
                 primary_name_normalized |-> payload.normalized_candidate_name,
                 status |-> "ACTIVE", created_at |-> now, updated_at |-> now]
        mapping == [PK |-> "NAME#" \o payload.normalized_candidate_name,
                    SK |-> "NOVA#" \o payload.nova_id, entity_type |-> "NameMapping",
                    schema_version |-> "1", name_raw |-> payload.candidate_name,
                    name_normalized |-> payload.normalized_candidate_name,
                    name_kind |-> "PRIMARY", nova_id |-> payload.nova_id,
                    source |-> "INGESTION", created_at |-> now, updated_at |-> now]
        \* name.strip().lower()
        normalized == CASE payload.candidate_name = " V1674 Her " -> "v1674 her"
                        [] payload.candidate_name = "RS Oph" -> "rs oph"
                        [] OTHER -> payload.candidate_name
    IN  CASE state_name \notin _TASKS -> missing("Unregistered task: " \o state_name)
          [] state_name = "BeginJobRun" ->
               result(<<jobrun>>,
                      Update(payload,
                             [workflow_name |-> IF "workflow_name" \in DOMAIN payload
                                                THEN payload.workflow_name
                                                ELSE "initialize_nova",
                              job_run_id |-> recorder.job_run_id]),
                      NoExc)
          [] state_name = "NormalizeCandidateName" ->
               IF "candidate_name" \notin DOMAIN payload THEN missing("candidate_name")
               ELSE result(<<>>, Update(payload, [normalized_candidate_name |-> normalized]),
                           NoExc)
          [] state_name = "CheckExistingNovaByName" ->
               IF "normalized_candidate_name" \notin DOMAIN payload
               THEN missing("normalized_candidate_name")
               ELSE result(<<>>,
                           Update(payload, [exists_in_db |-> "False", resolved_nova_id |-> None]),
                           NoExc)
          [] state_name = "CreateNovaId" ->
               result(<<>>, Update(payload, [nova_id |-> uuid4]), NoExc)
          [] state_name = "UpsertMinimalNovaMetadata" ->
               IF "nova_id" \notin DOMAIN payload THEN missing("nova_id")
               ELSE IF "candidate_name" \notin DOMAIN payload THEN missing("candidate_name")
               ELSE IF "normalized_candidate_name" \notin DOMAIN payload
               THEN missing("normalized_candidate_name")
               ELSE result(<<nova, mapping>>, payload, NoExc)
          [] state_name = "PublishIngestNewNova" ->
               result(<<>>, Update(payload, [launched |-> "ingest_new_nova"]), NoExc)
          [] state_name = "FinalizeJobRunSuccess" ->
               result(<<>>,
                      Update(payload, [outcome |-> IF "outcome" \in DOMAIN payload
                                                   THEN payload.outcome
                                                   ELSE "CREATED_AND_LAUNCHED"]),
                      NoExc)

\* JsonLogger.info / JsonLogger.exception: {"message": msg, **extra}
JsonLog(level, msg, extra) ==
    IF LevelNo(level) >= LoggerLevel(logs.LOG_LEVEL)
    THEN [logs EXCEPT !.records = Append(@, Update([message |-> msg], extra))]
    ELSE logs

\* no invocation is running
RouterIdle ==
    [pc |-> "idle", n |-> 0, event |-> <<>>, state_name |-> "", attempt_no |-> 0,
     payload |-> <<>>, recorder |-> <<>>, out |-> <<>>, exc |-> NoExc, step_exc |-> NoExc, fault |-> NoFault]

missing_key_of_event_only(event) ==
    IF "context" \notin DOMAIN event THEN "context"
    ELSE IF "input" \notin DOMAIN event THEN "input"
    ELSE None

\* main, lines 26-30: the key whose subscription raises KeyError, None when
\* event["context"]["state_name"], event["context"]["execution_arn"] and
\* event["input"] are all there
missing_key(event) ==
    IF "context" \notin DOMAIN event THEN "context"
    ELSE IF "state_name" \notin DOMAIN event.context THEN "state_name"
    ELSE IF "execution_arn" \notin DOMAIN event.context THEN "execution_arn"
    ELSE IF "input" \notin DOMAIN event THEN "input"
    ELSE None

\* main, lines 26-45, for one of the events it is invoked with: read the
\* event, which raises KeyError when a key is missing, log task_start, build
\* the recorder, put the STARTED record; a failed put
\* leaves main with the store's error.  Each invocation makes a recorder with
\* a job_run_id (a uuid4) of its own.  After an invocation has returned, the
\* state machine may invoke main for the next state with that output as the
\* input ("input.$": "$", output_path "$.Payload").  An execution has at most
\* MaxJobRuns + 1 invocations.
main_start ==
    \E fault \in Faults \cup {NoFault},
       event \in {[input |-> [candidate_name |-> " V1674 Her ", nova_id |-> "NOVA1",
                              workflow_name |-> "wf"],
                   context |-> [state_name |-> "BeginJobRun",
                                execution_arn |-> "arn:states:1"]],
                  [input |-> [candidate_name |-> " V1674 Her ", nova_id |-> "NOVA1",
                              workflow_name |-> "wf"],
                   context |-> [state_name |-> "NormalizeCandidateName",
                                execution_arn |-> "arn:states:1", retry_count |-> 0]],
                  [input |-> [workflow |-> "initialize_nova"],
                   context |-> [state_name |-> "NormalizeCandidateName",
                                execution_arn |-> "arn:states:1", retry_count |-> 1]],
                  [input |-> [candidate_name |-> "RS Oph",
                              normalized_candidate_name |-> "rs oph", nova_id |-> "NOVA1"],
                   context |-> [state_name |-> "UpsertMinimalNovaMetadata",
                                execution_arn |-> "arn:states:1", retry_count |-> 0]],
                  [input |-> [candidate_name |-> " V1674 Her ", nova_id |-> "NOVA1",
                              workflow_name |-> "wf"],
                   context |-> [state_name |-> "Unregistered",
                                execution_arn |-> "arn:states:1", retry_count |-> 0]],
                  [input |-> <<>>],
                  [input |-> [nova_id |-> "NOVA1"],
                   context |-> [execution_arn |-> "arn:states:1", retry_count |-> 0]],
                  [input |-> [nova_id |-> "NOVA1"],
                   context |-> [state_name |-> "BeginJobRun", retry_count |-> 0]],
                  [context |-> [state_name |-> "BeginJobRun",
                                execution_arn |-> "arn:states:1", retry_count |-> 0]]}
                 \cup (IF router.pc = "returned"
                       THEN {[input |-> router.out,
                              context |-> [state_name |-> "NormalizeCandidateName",
                                           execution_arn |-> router.recorder.execution_arn,
                                           retry_count |-> 0]]}
                       ELSE {}) :
        LET context == Get(event, "context")
            state_name == Get(context, "state_name")
            execution_arn == Get(context, "execution_arn")
            attempt_no == (IF "retry_count" \in DOMAIN context
                           THEN context.retry_count ELSE 0) + 1
            payload == Get(event, "input")
            n == router.n + 1
            recorder == from_payload(payload, execution_arn, "r" \o ToString(n))
            item == attempt_item(recorder, state_name, attempt_no, "STARTED", <<>>)
            started == [pc |-> "started", n |-> n, event |-> event, state_name |-> state_name,
                        attempt_no |-> attempt_no, payload |-> payload,
                        recorder |-> recorder, out |-> <<>>, exc |-> NoExc,
                        step_exc |-> NoExc, fault |-> NoFault]
        IN  /\ router.pc \in {"idle", "returned", "raised"}
            /\ router.n <= MaxJobRuns
            /\ UNCHANGED <<clock, lockGhosts, recordGhosts, heap, envelope>>
            /\ logs' = IF missing_key(event) # None THEN logs
                       ELSE JsonLog("INFO", "task_start",
                                    [state_name |-> state_name, execution_arn |-> execution_arn,
                                     attempt_number |-> attempt_no])
            /\ IF missing_key(event) # None
               THEN /\ router' = [RouterIdle EXCEPT !.pc = "raised", !.n = n, !.event = event,
                                                    !.exc = KeyError(missing_key(event))]
                    /\ last' = Step("main", NoKey, "raise", KeyError(missing_key(event)), NoFault)
                    /\ UNCHANGED table
               ELSE IF fault # NoFault
               THEN /\ router' = [started EXCEPT !.pc = "raised", !.exc = FaultError(fault),
                                                 !.fault = fault]
                    /\ last' = Step("attempt_started", <<item.PK, item.SK>>, "raise",
                                    FaultError(fault), fault)
                    /\ UNCHANGED table
               ELSE /\ router' = started
                    /\ table' = PutItem(table, item)
                    /\ last' = Step("attempt_started", <<item.PK, item.SK>>, "None", NoExc,
                                    fault)

\* main, lines 48-49: resolve the task and run it; the put numbered failAt
\* fails, none when failAt is 0
main_step ==
    \E failAt \in 0..2, fault \in Faults :
        LET r == RunTask(router.state_name, router.payload, router.recorder,
                         "r" \o ToString(router.n))
            failed == failAt # 0
            exc == IF failed THEN FaultError(fault) ELSE r.exc
            done == IF failed THEN failAt - 1 ELSE Len(r.puts)
        IN  /\ router.pc = "started"
            /\ failAt \in 0..Len(r.puts)
            /\ table' = IF done = 0 THEN table
                        ELSE IF done = 1 THEN PutItem(table, r.puts[1])
                        ELSE PutItem(PutItem(table, r.puts[1]), r.puts[2])
            /\ router' = [router EXCEPT !.pc = IF exc = NoExc THEN "stepped" ELSE "excepted",
                                        !.out = IF exc = NoExc THEN r.out ELSE <<>>,
                                        !.exc = exc, !.step_exc = exc,
                                        !.fault = IF failed THEN fault ELSE @]
            /\ last' = Step("step", <<router.recorder.nova_id, router.state_name>>,
                            IF exc = NoExc THEN "out" ELSE "raise", exc,
                            IF failed THEN fault ELSE NoFault)
            /\ UNCHANGED <<clock, lockGhosts, recordGhosts, heap, envelope, logs>>

\* main, line 51: put the SUCCEEDED record; a failed put is caught by the
\* except clause like an exception of the step
main_succeeded ==
    \E fault \in Faults \cup {NoFault} :
        LET item == attempt_item(router.recorder, router.state_name, router.attempt_no,
                                 "SUCCEEDED", <<>>)
        IN  /\ router.pc = "stepped"
            /\ UNCHANGED <<clock, lockGhosts, recordGhosts, heap, envelope, logs>>
            /\ IF fault # NoFault
               THEN /\ router' = [router EXCEPT !.pc = "excepted", !.exc = FaultError(fault),
                                                !.fault = fault]
                    /\ last' = Step("attempt_succeeded", <<item.PK, item.SK>>, "raise",
                                    FaultError(fault), fault)
                    /\ UNCHANGED table
               ELSE /\ router' = [router EXCEPT !.pc = "succeeded"]
                    /\ table' = PutItem(table, item)
                    /\ last' = Step("attempt_succeeded", <<item.PK, item.SK>>, "None", NoExc,
                                    fault)

\* main, lines 53-61: log task_success and return out
main_return ==
    /\ router.pc = "succeeded"
    /\ logs' = JsonLog("INFO", "task_success",
                       [state_name |-> router.state_name,
                        execution_arn |-> router.recorder.execution_arn,
                        attempt_number |-> router.attempt_no])
    /\ router' = [router EXCEPT !.pc = "returned"]
    /\ last' = Step("main", <<router.recorder.nova_id, router.state_name>>, "out", NoExc, NoFault)
    /\ UNCHANGED <<table, clock, lockGhosts, recordGhosts, heap, envelope>>

\* main, lines 63-70: classify_exception, which answers TERMINAL with
\* str(exc) for every exception, and put the FAILED record with
\* error_message[:400]; a failed put leaves main with the store's error
main_failed ==
    \E fault \in Faults \cup {NoFault} :
        LET err == [error_type |-> "TERMINAL", message |-> router.exc.msg]
            item == attempt_item(router.recorder, router.state_name, router.attempt_no,
                                 "FAILED",
                                 [error_type |-> err.error_type,
                                  error_message |->
                                      SubSeq(err.message, 1,
                                             IF Len(err.message) < 400
                                             THEN Len(err.message) ELSE 400)])
        IN  /\ router.pc = "excepted"
            /\ UNCHANGED <<clock, lockGhosts, recordGhosts, heap, envelope, logs>>
            /\ IF fault # NoFault
               THEN /\ router' = [router EXCEPT !.pc = "raised", !.exc = FaultError(fault),
                                                !.fault = fault]
                    /\ last' = Step("attempt_failed", <<item.PK, item.SK>>, "raise",
                                    FaultError(fault), fault)
                    /\ UNCHANGED table
               ELSE /\ router' = [router EXCEPT !.pc = "failed"]
                    /\ table' = PutItem(table, item)
                    /\ last' = Step("attempt_failed", <<item.PK, item.SK>>, "None", NoExc,
                                    fault)

\* main, lines 72-81: log task_failed and re-raise
main_reraise ==
    /\ router.pc = "failed"
    /\ logs' = JsonLog("ERROR", "task_failed",
                       [state_name |-> router.state_name,
                        execution_arn |-> router.recorder.execution_arn,
                        attempt_number |-> router.attempt_no, error_type |-> "TERMINAL"])
    /\ router' = [router EXCEPT !.pc = "raised"]
    /\ last' = Step("main", <<router.recorder.nova_id, router.state_name>>, "raise",
                    router.exc, NoFault)
    /\ UNCHANGED <<table, clock, lockGhosts, recordGhosts, heap, envelope>>

----------------------------------------------------------------------------
(* Specifications *)

\* no envelope call, log call or task_router invocation has happened
InitApp ==
    /\ heap = <<>>
    /\ envelope = [ref |-> None, calls |-> 0]
    /\ logs = [LOG_LEVEL |-> "INFO", records |-> <<>>]
    /\ router = RouterIdle

Init ==
    /\ InitApp
    /\ table = <<>>
    /\ clock = 0
    /\ last = Step("init", NoKey, "None", NoExc, NoFault)
    /\ held = [i \in Invocations |-> [key \in AllLockKeys |-> 0]]
    /\ acqTrue = [key \in AllLockKeys |-> 0]
    /\ acqFalse = [key \in AllLockKeys |-> 0]
    /\ finalizeOk = <<>>
    /\ finishOk = <<>>

AcquireLock == \E i \in Invocations, key \in LockKeys, ttl \in TtlSeconds, fault \in Faults \cup {NoFault} :
                   acquire_lock(i, key, ttl, fault)

\* release_lock called by an invocation whose acquire_lock returned True and
\* that has not released yet
ReleaseLock == \E i \in Invocations, key \in LockKeys, fault \in Faults \cup {NoFault} :
                   held[i][key] # 0 /\ release_lock(i, key, fault)

Sweep == \E key \in LockKeys : TTLSweep(key)

\* an invocation that has not got the lock calls acquire_lock, again and
\* again until it returns True; no invocation calls release_lock
RetryAcquire(i) ==
    \E key \in LockKeys, ttl \in TtlSeconds :
        held[i][key] = 0 /\ acquire_lock(i, key, ttl, NoFault)


\* time passes: always up to MaxClock, and as long as a lock item has not expired
Elapse ==
    /\ \/ clock < MaxClock
       \/ \E key \in LockKeys :
             LockKeyOf(key) \in DOMAIN table /\ table[LockKeyOf(key)].expires_at > clock
    /\ clock' = clock + 1
    /\ last' = Step("tick", NoKey, "None", NoExc, NoFault)
    /\ UNCHANGED <<table, lockGhosts, recordGhosts, heap, envelope, logs, router>>

NextLockLive == (\E i \in Invocations : RetryAcquire(i)) \/ Sweep \/ Elapse

\* time passes, the TTL sweep is fair, and every invocation keeps re-trying
SpecLockLive ==
    /\ Init
    /\ [][NextLockLive]_vars
    /\ WF_vars(Elapse)
    /\ WF_vars(Sweep)
    /\ \A i \in Invocations : WF_vars(RetryAcquire(i))

\* the lock operations while time passes, also past the expires_at of an item
\* the TTL sweep has not removed yet
NextLockExpired ==
    \/ AcquireLock
    \/ ReleaseLock
    \/ Sweep
    \/ /\ clock <= MaxClock
       /\ clock' = clock + 1
       /\ last' = Step("tick", NoKey, "None", NoExc, NoFault)
       /\ UNCHANGED <<table, lockGhosts, recordGhosts, heap, envelope, logs, router>>

SpecLockExpired == Init /\ [][NextLockExpired]_vars

NextLock == AcquireLock \/ ReleaseLock \/ Sweep \/ Tick

SpecLock == Init /\ [][NextLock]_vars

\* <<job_run_id, started_at, identifiers>>: the production call, and the test hooks
BeginArgs ==
    {<<None, None, <<>>>>,
     <<"jr1", None, [data_product_id |-> "DP1", reference_id |-> None]>>,
     <<"jr1", Iso(0), [data_product_id |-> "DP1", reference_id |-> None]>>}

BeginJobRun ==
    \E nova_id \in NovaIds, workflow_name \in WorkflowNames, a \in BeginArgs,
       fault \in Faults \cup {NoFault} :
      \E uuid4 \in (IF Falsy(a[1]) THEN FreshUuids ELSE {None}) :
        begin_job_run(nova_id, workflow_name, "arn:states:1", "cid", "idem-123",
                      a[3], a[2], a[1], uuid4, fault)

\* <<status, outcome, summary_fields>>
FinalizeArgs ==
    {<<"SUCCEEDED", "ok", [items |-> "3", note |-> None]>>,
     <<"FAILED", None, <<>>>>,
     <<"CANCELLED", "cancelled", <<>>>>,
     <<"RUNNING", None, <<>>>>}

FinalizeJobRun ==
    \E nova_id \in NovaIds, workflow_name \in WorkflowNames, started_at \in Timestamps,
       job_run_id \in JobRunIds \cup Uuids, a \in FinalizeArgs,
       fault \in Faults \cup {NoFault} :
        finalize_job_run(nova_id, workflow_name, started_at, job_run_id, a[1], None,
                         a[2], a[3], fault)

\* begin_job_run with the correlation_id the caller passes: a str, which may
\* be empty
NextCorrelation ==
    \/ \E nova_id \in NovaIds, workflow_name \in WorkflowNames,
          correlation_id \in {"cid", ""}, uuid4 \in FreshUuids,
          fault \in Faults \cup {NoFault} :
           begin_job_run(nova_id, workflow_name, "arn:states:1", correlation_id, "idem-123",
                         <<>>, None, None, uuid4, fault)
    \/ FinalizeJobRun
    \/ Tick

SpecCorrelation == Init /\ [][NextCorrelation]_vars

\* begin_job_run replayed: every call passes the same nova_id, workflow_name
\* and idempotency_key and no job_run_id, and draws a uuid4 no record carries;
\* a begun JobRun is finalized
NextReplay ==
    \/ \E nova_id \in NovaIds, workflow_name \in WorkflowNames, uuid4 \in {"r1", "r2"},
          fault \in Faults \cup {NoFault} :
           /\ \A key \in DOMAIN table : table[key].job_run_id # uuid4
           /\ begin_job_run(nova_id, workflow_name, "arn:states:1", "cid", "idem-123",
                            <<>>, None, None, uuid4, fault)
    \/ \E key \in DOMAIN table, fault \in Faults \cup {NoFault} :
           finalize_job_run(key[1], table[key].workflow_name, table[key].started_at,
                            table[key].job_run_id, "SUCCEEDED", None, "ok", <<>>, fault)
    \/ Tick

SpecReplay == Init /\ [][NextReplay]_vars

NextJobRun == BeginJobRun \/ FinalizeJobRun \/ Tick

SpecJobRun == Init /\ [][NextJobRun]_vars

\* <<started_at, identifiers>>
StartArgs ==
    {<<None, [reference_id |-> "R1", data_product_id |-> None]>>,
     <<Iso(0), [reference_id |-> "R1", data_product_id |-> None]>>}

RecordAttemptStarted ==
    \E nova_id \in NovaIds, job_run_id \in JobRunIds, task_name \in TaskNames,
       attempt_no \in AttemptNos, a \in StartArgs, fault \in Faults \cup {NoFault} :
        /\ record_attempt_started(nova_id, job_run_id, task_name, attempt_no, a[1], a[2], fault)
        /\ AttemptRoom(MaxAttempts)

\* <<status, duration_ms, error_fields>>
FinishArgs ==
    {<<"SUCCEEDED", 5, <<>>>>,
     <<"FAILED", 123, [error_classification |-> "RETRYABLE", error_fingerprint |-> "abc",
                       error_message |-> None]>>,
     <<"TIMED_OUT", 900, [error_classification |-> None]>>}

RecordAttemptFinished ==
    \E k \in AttemptKeySpace, a \in FinishArgs, fault \in Faults \cup {NoFault} :
        record_attempt_finished(k[1], k[2], a[1], a[2], None, a[3], fault)

\* record_attempt_finished with the <<status, error_fields>> the caller
\* passes: it chooses both, independently
NextAttemptError ==
    \/ RecordAttemptStarted
    \/ \E k \in AttemptKeySpace,
          a \in {<<"SUCCEEDED", <<>>>>,
                 <<"SUCCEEDED", [error_classification |-> "RETRYABLE"]>>,
                 <<"FAILED", [error_classification |-> "TERMINAL"]>>} :
           record_attempt_finished(k[1], k[2], a[1], 5, None, a[2], NoFault)
    \/ Tick

SpecAttemptError == Init /\ [][NextAttemptError]_vars

NextAttempt == RecordAttemptStarted \/ RecordAttemptFinished \/ Tick

SpecAttempt == Init /\ [][NextAttempt]_vars

\* JobRun creation and Attempt recording interleaved, every request answered by the store
RecordsBegin ==
    \E nova_id \in NovaIds, workflow_name \in WorkflowNames, a \in BeginArgs :
      \E uuid4 \in (IF Falsy(a[1]) THEN FreshUuids ELSE {None}) :
        begin_job_run(nova_id, workflow_name, "arn:states:1", "cid", "idem-123",
                      a[3], a[2], a[1], uuid4, NoFault)

RecordsStart ==
    \E nova_id \in NovaIds, job_run_id \in JobRunIds, task_name \in TaskNames,
       attempt_no \in AttemptNos, a \in StartArgs :
        /\ record_attempt_started(nova_id, job_run_id, task_name, attempt_no, a[1], a[2], NoFault)
        /\ AttemptRoom(MaxAttempts)

RecordsFinish ==
    \E k \in AttemptKeySpace :
        record_attempt_finished(k[1], k[2], "FAILED", 123, None,
                                [error_classification |-> "RETRYABLE",
                                 error_fingerprint |-> "abc"], NoFault)

NextRecords == RecordsBegin \/ RecordsStart \/ RecordsFinish \/ Tick

SpecRecords == Init /\ [][NextRecords]_vars

\* Every runtime operation interleaved on the one table within one clock
\* second, each with one argument tuple; release_lock is called by any
\* invocation with any key, and a retry of an attempt has room beside it
RuntimeAcquire ==
    \E key \in LockKeys, fault \in Faults \cup {NoFault} :
        acquire_lock(1, key, 1, fault)

RuntimeRelease ==
    \E i \in Invocations, key \in AllLockKeys, fault \in Faults \cup {NoFault} :
        release_lock(i, key, fault)

RuntimeBegin ==
    \E nova_id \in NovaIds, workflow_name \in WorkflowNames, job_run_id \in JobRunIds,
       fault \in Faults \cup {NoFault} :
        begin_job_run(nova_id, workflow_name, "arn:states:1", "cid", "idem-123",
                      <<>>, None, job_run_id, None, fault)

RuntimeFinalize ==
    \E nova_id \in NovaIds, workflow_name \in WorkflowNames, started_at \in Timestamps,
       job_run_id \in JobRunIds, fault \in Faults \cup {NoFault} :
        finalize_job_run(nova_id, workflow_name, started_at, job_run_id, "SUCCEEDED", None,
                         "ok", <<>>, fault)

RuntimeStart ==
    \E nova_id \in NovaIds, job_run_id \in JobRunIds, task_name \in TaskNames,
       attempt_no \in AttemptNos, fault \in Faults \cup {NoFault} :
        /\ record_attempt_started(nova_id, job_run_id, task_name, attempt_no, None, <<>>, fault)
        /\ AttemptRoom(MaxAttempts + 1)

\* the orchestrator delivers a step invocation again, at the same or at a
\* later clock reading: each delivery calls record_attempt_started
NextDelivery == RuntimeStart \/ RecordsFinish \/ Tick

SpecDelivery == Init /\ [][NextDelivery]_vars

RuntimeFinish ==
    \E k \in AttemptKeySpace, fault \in Faults \cup {NoFault} :
        record_attempt_finished(k[1], k[2], "FAILED", 123, None,
                                [error_classification |-> "RETRYABLE"], fault)

Next ==
    \/ RuntimeAcquire \/ RuntimeRelease
    \/ RuntimeBegin \/ RuntimeFinalize
    \/ RuntimeStart \/ RuntimeFinish

Spec == Init /\ [][Next]_vars

\* errors.py applied to one exception or string at a time
Exception(kind, msg) == [kind |-> kind, code |-> "", http |-> 0, msg |-> msg]

Tokens == {" ", "\n", "boom"}

RECURSIVE SeqsUpTo(_)
SeqsUpTo(n) ==
    IF n = 0 THEN {<<>>}
    ELSE SeqsUpTo(n - 1) \cup {Append(m, t) : m \in {x \in SeqsUpTo(n - 1) : Len(x) = n - 1}, t \in Tokens}

Messages == SeqsUpTo(MaxMsgLen)

\* the runtime's own classes, built-ins, a class that is neither, and a class
\* that inherits from SuspectDataError and ValueError
ExceptionKinds ==
    {"SuspectDataError", "ValidationError", "ValueError", "TypeError", "RuntimeError",
     "SuspectValueError"}

ErrorCodes ==
    {"", "ThrottlingException", "SlowDown", "AccessDeniedException",
     "ConditionalCheckFailedException", "InternalServerError"}

HttpStatuses == {0, 400, 404, 429, 500, 501, 502, 503, 504, 599}

ClientErrors ==
    {ClientError(code, http, message) :
        code \in ErrorCodes, http \in HttpStatuses, message \in {<<"slow", " ", " ", "down">>, <<>>}}

\* raise EnvelopeValidationError(...) in envelope_ok and get_context
EnvelopeErrors ==
    {Exception("EnvelopeValidationError", msg) :
        msg \in {<<"Envelope", " ", "must", " ", "be", " ", "a", " ", "dict">>,
                 <<"Envelope", " ", "missing", " ", "required", " ", "key:", " ", "'input'">>,
                 <<"Envelope", " ", "missing", " ", "'context'", " ", "dict">>}}

\* raise ContractValidationError(...) in validate_enveloped_input and
\* get_model_for_workflow; str(exc) is the message field
ContractErrors ==
    {Exception("ContractValidationError", msg) :
        msg \in {<<"Envelope", " ", "must", " ", "be", " ", "a", " ", "dict.">>,
                 <<"Contract", " ", "validation", " ", "failed", " ", "for", " ", "Model.">>,
                 <<"Unknown", " ", "workflow_name", " ", "'wf'.">>}}

Exceptions ==
    {Exception(kind, msg) : kind \in ExceptionKinds, msg \in Messages}
        \cup ClientErrors \cup EnvelopeErrors \cup ContractErrors

Strings == {Exception("str", msg) : msg \in Messages}

InitErrors ==
    /\ InitApp
    /\ table = <<>>
    /\ clock = 0
    /\ \E x \in Exceptions \cup Strings : last = Step("raise", NoKey, "raise", x, NoFault)
    /\ held = [i \in Invocations |-> [key \in AllLockKeys |-> 0]]
    /\ acqTrue = [key \in AllLockKeys |-> 0]
    /\ acqFalse = [key \in AllLockKeys |-> 0]
    /\ finalizeOk = <<>>
    /\ finishOk = <<>>

ClassifyException ==
    /\ last.op = "raise"
    /\ last.exc \in Exceptions
    /\ last' = Step("classify_exception", NoKey, classify_exception(last.exc), last.exc, NoFault)
    /\ UNCHANGED <<table, clock, lockGhosts, recordGhosts, heap, envelope, logs, router>>

FingerprintError ==
    /\ last.op = "raise"
    /\ last' = Step("fingerprint_error", NoKey, fingerprint_error(last.exc), last.exc, NoFault)
    /\ UNCHANGED <<table, clock, lockGhosts, recordGhosts, heap, envelope, logs, router>>

NextErrors == ClassifyException \/ FingerprintError

SpecErrors == InitErrors /\ [][NextErrors]_vars

\* _attempt_sk or _jobrun_sk applied to two identities at a time; the
\* identifiers and names are str, which nothing keeps free of '#'
InitKeys ==
    /\ InitApp
    /\ table = <<>>
    /\ clock = 0
    /\ \E ids \in {[job_run_id : {"jr1", "jr1#t"}, task_name : {"t", "t#t"},
                     attempt_no : AttemptNos, timestamp : Timestamps],
                    [workflow_name : {"wf", "wf#T0Z"}, started_at : Timestamps,
                     job_run_id : {"jr1", "T0Z#jr1"}]} :
          \E a \in ids, b \in ids : last = Step("init", <<a, b>>, "None", NoExc, NoFault)
    /\ held = [i \in Invocations |-> [key \in AllLockKeys |-> 0]]
    /\ acqTrue = [key \in AllLockKeys |-> 0]
    /\ acqFalse = [key \in AllLockKeys |-> 0]
    /\ finalizeOk = <<>>
    /\ finishOk = <<>>

NextKeys ==
    /\ last.op = "init"
    /\ UNCHANGED <<table, clock, lockGhosts, recordGhosts, heap, envelope, logs, router>>
    /\ \/ /\ "task_name" \in DOMAIN last.key[1]
          /\ last' = Step("_attempt_sk", last.key,
                          <<_attempt_sk(last.key[1].job_run_id, last.key[1].task_name,
                                        last.key[1].attempt_no, last.key[1].timestamp),
                            _attempt_sk(last.key[2].job_run_id, last.key[2].task_name,
                                        last.key[2].attempt_no, last.key[2].timestamp)>>,
                          NoExc, NoFault)
       \/ /\ "workflow_name" \in DOMAIN last.key[1]
          /\ last' = Step("_jobrun_sk", last.key,
                          <<_jobrun_sk(last.key[1].workflow_name, last.key[1].started_at,
                                       last.key[1].job_run_id),
                            _jobrun_sk(last.key[2].workflow_name, last.key[2].started_at,
                                       last.key[2].job_run_id)>>,
                          NoExc, NoFault)

SpecKeys == InitKeys /\ [][NextKeys]_vars

\* envelope.py applied, one call after the other, to an envelope and to the
\* envelopes the calls return
\* one entry of an envelope is [tag, v, d]: missing, a value v that is not a
\* dict, or the dict d; Load is the heap that holds the envelope
\* {"input": i, "context": c} at address @1
Load(i, c) ==
    LET ia == "@2"
        ca == IF i.tag = "dict" THEN "@3" ELSE "@2"
        iv == IF i.tag = "dict" THEN ia ELSE i.v
        cv == IF c.tag = "dict" THEN ca ELSE c.v
        top == IF i.tag = "missing" /\ c.tag = "missing" THEN <<>>
               ELSE IF i.tag = "missing" THEN [context |-> cv]
               ELSE IF c.tag = "missing" THEN [input |-> iv]
               ELSE [input |-> iv, context |-> cv]
        h0 == "@1" :> top
        h1 == IF i.tag = "dict" THEN (ia :> i.d) @@ h0 ELSE h0
    IN  IF c.tag = "dict" THEN (ca :> c.d) @@ h1 ELSE h1

InitEnvelope ==
    /\ table = <<>>
    /\ clock = 0
    /\ last = Step("init", NoKey, "None", NoExc, NoFault)
    /\ held = [i \in Invocations |-> [key \in AllLockKeys |-> 0]]
    /\ acqTrue = [key \in AllLockKeys |-> 0]
    /\ acqFalse = [key \in AllLockKeys |-> 0]
    /\ finalizeOk = <<>>
    /\ finishOk = <<>>
    /\ logs = [LOG_LEVEL |-> "INFO", records |-> <<>>]
    /\ router = RouterIdle
    /\ \/ \E i \in {[tag |-> "missing", v |-> "", d |-> <<>>],
                     [tag |-> "value", v |-> "bad", d |-> <<>>],
                     [tag |-> "dict", v |-> "", d |-> <<>>],
                     [tag |-> "dict", v |-> "", d |-> [x |-> "1"]]},
             c \in {[tag |-> "missing", v |-> "", d |-> <<>>],
                     [tag |-> "value", v |-> None, d |-> <<>>],
                     [tag |-> "value", v |-> "", d |-> <<>>]}
                      \cup {[tag |-> "dict", v |-> "", d |-> d] :
                               d \in {<<>>, [workflow_name |-> "W"],
                                      [correlation_id |-> ""],
                                      [correlation_id |-> "", workflow_name |-> "W"],
                                      [correlation_id |-> None],
                                      [correlation_id |-> None, workflow_name |-> "W"],
                                      [correlation_id |-> "abc"],
                                      [correlation_id |-> "abc", workflow_name |-> "W"]}} :
            heap = Load(i, c) /\ envelope = [ref |-> "@1", calls |-> 0]
       \/ \E v \in {None, "bad"} :
            heap = <<>> /\ envelope = [ref |-> v, calls |-> 0]

\* the call returns: its outcome o becomes the heap, and the envelope it
\* returned, if any, is what the next call is given
Returned(op, arg, o, next) ==
    /\ envelope.calls < MaxCalls
    /\ heap' = o.heap
    /\ last' = Step(op, <<envelope.ref, arg>>, o.ret, o.exc, NoFault)
    /\ envelope' = [ref |-> next, calls |-> envelope.calls + 1]
    /\ UNCHANGED <<table, clock, lockGhosts, recordGhosts, logs, router>>

\* one call of envelope_ok, ensure_correlation_id (str(uuid.uuid4()) is u1 or
\* u2) or with_context(envelope, **updates)
NextEnvelope ==
    \/ Returned("envelope_ok", <<>>, envelope_ok(heap, envelope.ref), envelope.ref)
    \/ \E uuid4 \in {"u1", "u2"} :
         /\ _is_dict(heap, envelope.ref)
         /\ LET o == ensure_correlation_id(heap, envelope.ref, uuid4)
            IN  Returned("ensure_correlation_id", uuid4, o, o.ret)
    \/ \E updates \in {[job_run_id |-> "jr1", attempt_number |-> "2"],
                        [correlation_id |-> None, job_run_id |-> "jr1"],
                        [correlation_id |-> "c2", workflow_name |-> None]} :
         /\ _is_dict(heap, envelope.ref)
         /\ LET o == with_context(heap, envelope.ref, updates)
            IN  Returned("with_context", updates, o,
                         IF o.ret = "raise" THEN envelope.ref ELSE o.ret)

SpecEnvelope == InitEnvelope /\ [][NextEnvelope]_vars

\* LOG_LEVEL is INFO, warning or an unknown name; the envelope logged with
\* has a context dict, a context of None, or is None itself
InitLogging ==
    /\ table = <<>>
    /\ clock = 0
    /\ last = Step("init", NoKey, "None", NoExc, NoFault)
    /\ held = [i \in Invocations |-> [key \in AllLockKeys |-> 0]]
    /\ acqTrue = [key \in AllLockKeys |-> 0]
    /\ acqFalse = [key \in AllLockKeys |-> 0]
    /\ finalizeOk = <<>>
    /\ finishOk = <<>>
    /\ router = RouterIdle
    /\ \E level \in {"INFO", "warning", "verbose"} : logs = [LOG_LEVEL |-> level, records |-> <<>>]
    /\ \/ \E c \in {[correlation_id |-> "cid", workflow_name |-> "W", nova_id |-> "N1",
                      idempotency_key |-> "idem-123"],
                     [correlation_id |-> "c", attempt_number |-> "2", job_run_id |-> None,
                      custom |-> "x"]} :
            /\ heap = Load([tag |-> "dict", v |-> "", d |-> <<>>],
                           [tag |-> "dict", v |-> "", d |-> c])
            /\ envelope = [ref |-> "@1", calls |-> 0]
       \/ /\ heap = Load([tag |-> "dict", v |-> "", d |-> <<>>],
                          [tag |-> "value", v |-> None, d |-> <<>>])
          /\ envelope = [ref |-> "@1", calls |-> 0]
       \/ heap = <<>> /\ envelope = [ref |-> None, calls |-> 0]

\* a log call returns: what it emitted, if anything, is in the logs
Logged(op, fields, lg, ret) ==
    /\ envelope.calls < MaxCalls
    /\ logs' = lg
    /\ envelope' = [envelope EXCEPT !.calls = @ + 1]
    /\ last' = Step(op, <<envelope.ref, fields>>, ret, NoExc, NoFault)
    /\ UNCHANGED <<table, clock, lockGhosts, recordGhosts, heap, router>>

\* one call of log_info, log_warn, log_error, log_task_start or log_task_end
\* with some **fields
NextLogging ==
    \E fields \in {<<>>,
                    [correlation_id |-> "override", error_classification |-> "TERMINAL"],
                    [nova_id |-> None, note |-> "n"]} :
        \/ Logged("log_info", fields, log_info("step", heap, envelope.ref, fields), "None")
        \/ Logged("log_warn", fields, log_warn("slow", heap, envelope.ref, fields), "None")
        \/ Logged("log_error", fields, log_error("failed", heap, envelope.ref, fields), "None")
        \/ LET o == log_task_start(heap, envelope.ref, fields)
           IN  Logged("log_task_start", fields, o.logs, ToString(o.ret))
        \/ \E outcome \in {None, "ok"} :
             LET o == log_task_end(clock, heap, envelope.ref, outcome, fields)
             IN  Logged("log_task_end", fields, o.logs, ToString(o.ret))

SpecLogging == InitLogging /\ [][NextLogging]_vars

NextRouter ==
    \/ main_start \/ main_step \/ main_succeeded \/ main_return
    \/ main_failed \/ main_reraise \/ Tick

SpecRouter == Init /\ [][NextRouter]_vars


----------------------------------------------------------------------------
(* Lock claims *)

Holds(i, key) == held[i][key] # 0 /\ clock < held[i][key]

\* C1: at most one invocation at a time holds a lock key, an invocation
\* holding the key from the acquire_lock that returned True until it calls
\* release_lock or its expires_at passes.
C1_AtMostOneHolder ==
    \A key \in LockKeys : \A i, j \in Invocations :
        (Holds(i, key) /\ Holds(j, key)) => i = j

\* C2: among the acquire_lock calls the store answered for a key since its
\* item was last absent (no release or expiry in between), exactly one
\* returned True and every other one returned False.
C2_FirstWriterWins ==
    \A key \in LockKeys :
        /\ (acqTrue[key] + acqFalse[key] > 0) => acqTrue[key] = 1
        /\ (acqTrue[key] = 1) <=> (LockKeyOf(key) \in DOMAIN table)

C2_Witness ==
    /\ last.op = "acquire_lock"
    /\ last.ret = "False"
    /\ \E key \in LockKeys : acqTrue[key] = 1 /\ acqFalse[key] = 2

----------------------------------------------------------------------------
(* JobRun and Attempt claims *)

Restrict(item, attrs) == [a \in DOMAIN item \cap attrs |-> item[a]]

Finalized(tbl, key) == key \in DOMAIN tbl /\ "ended_at" \in DOMAIN tbl[key]

\* C3: at most one finalize_job_run call on a JobRun identity succeeds; a call
\* the store answers on an already finalized JobRun fails with the
\* conditional-check ("already finalized") error and leaves the stored
\* record, with its status, ended_at, outcome and summary, as it was.
C3_FinalizeAtMostOnce ==
    /\ [](\A key \in DOMAIN finalizeOk : finalizeOk[key] <= 1)
    /\ [][(/\ last'.op = "finalize_job_run"
           /\ last'.fault = NoFault
           /\ Finalized(table, last'.key))
          => (/\ last'.ret = "raise"
              /\ last'.exc = ConditionFailure
              /\ table' = table)]_vars

C3_Witness ==
    /\ last.op = "finalize_job_run"
    /\ last.exc = ConditionFailure
    /\ Count(finalizeOk, last.key) = 1
    /\ last.key \in DOMAIN table
    /\ "started_at" \in DOMAIN table[last.key]
    /\ table[last.key].status = "SUCCEEDED"
    /\ "summary" \in DOMAIN table[last.key]

\* C4: record_attempt_finished succeeds exactly once on a handle returned by
\* record_attempt_started; every later call on that handle fails.
C4_FinishSucceedsOnce ==
    \A key \in DOMAIN finishOk : finishOk[key] <= 1

AttemptTerminal == {"SUCCEEDED", "FAILED", "TIMED_OUT", "CANCELLED"}

AttemptOutcome(item) == Restrict(item, {"status", "finished_at", "duration_ms", "error"})

\* C5: an Attempt record moves only from STARTED to a terminal status, and
\* once it holds a terminal status no operation changes its status,
\* finished_at, duration_ms or error.
C5_TerminalIsFinal ==
    [][\A key \in AttemptKeys :
         /\ key \in DOMAIN table'
         /\ table'[key].status \in AttemptTerminal \cup {table[key].status}
         /\ table[key].status \in AttemptTerminal
              => AttemptOutcome(table'[key]) = AttemptOutcome(table[key])]_vars

JobRunTerminal == {"SUCCEEDED", "FAILED", "CANCELLED"}

\* the items begin_job_run wrote
JobRunRecords ==
    {key \in DOMAIN table : "entity_type" \in DOMAIN table[key] /\ table[key].entity_type = "JobRun"}

\* C6: every JobRun record has status RUNNING exactly when its ended_at is
\* absent, and a record whose ended_at is set has a status in SUCCEEDED,
\* FAILED, CANCELLED, whatever status finalize_job_run was called with.
C6_RunningIffNotEnded ==
    \A key \in JobRunRecords :
        /\ (table[key].status = "RUNNING") <=> ("ended_at" \notin DOMAIN table[key])
        /\ ("ended_at" \in DOMAIN table[key]) => table[key].status \in JobRunTerminal

\* C7: begin_job_run on an identity that already exists fails with the
\* store's conditional-check error, returns no job_run_id and leaves the
\* table, so the existing record, unchanged.
C7_DuplicateBeginRejected ==
    [][(/\ last'.op = "begin_job_run"
        /\ last'.fault = NoFault
        /\ last'.key \in DOMAIN table)
       => (/\ last'.ret = "raise"
           /\ last'.exc = ConditionFailure
           /\ table' = table)]_vars

C7_Witness ==
    /\ last.op = "begin_job_run"
    /\ last.ret = "raise"
    /\ last.exc = ConditionFailure
    /\ Finalized(table, last.key)
    /\ table[last.key].status \in JobRunTerminal

\* C8: record_attempt_started on an identity that already exists fails with
\* the store's conditional-check error and leaves the table, so the
\* existing Attempt record, unchanged.
C8_DuplicateStartRejected ==
    [][(/\ last'.op = "record_attempt_started"
        /\ last'.fault = NoFault
        /\ last'.key \in DOMAIN table)
       => (/\ last'.ret = "raise"
           /\ last'.exc = ConditionFailure
           /\ table' = table)]_vars

C8_Witness ==
    /\ last.op = "record_attempt_started"
    /\ last.ret = "raise"
    /\ last.exc = ConditionFailure
    /\ last.key \in DOMAIN table
    /\ table[last.key].status \in AttemptTerminal

\* C9: the exception raised by a failed condition in begin_job_run,
\* record_attempt_started or record_attempt_finished is classified TERMINAL
\* by classify_exception.
C9_ConditionFailureIsTerminal ==
    (/\ last.op \in {"begin_job_run", "record_attempt_started", "record_attempt_finished"}
     /\ last.ret = "raise"
     /\ last.fault = NoFault)
    => classify_exception(last.exc)[1] = "TERMINAL"

\* a finish on a handle that was never started has just been refused, with a
\* JobRun and an Attempt record in the table
C9_Witness ==
    /\ last.op = "record_attempt_finished"
    /\ last.ret = "raise"
    /\ last.exc.code = ConditionalCheckFailed
    /\ last.key \notin DOMAIN table
    /\ JobRunKeys # {}
    /\ AttemptKeys # {}

\* C10: finalize_job_run raises the conditional-check error exactly when the
\* JobRun is already finalized, so that error tells "already finalized" apart
\* from every other failure of the call (a throttled write, a missing item).
C10_AlreadyFinalizedIsDistinct ==
    [][last'.op = "finalize_job_run"
       => ((last'.ret = "raise" /\ last'.exc.code = ConditionalCheckFailed)
            <=> (last'.fault = NoFault /\ Finalized(table, last'.key)))]_vars

C10_Witness ==
    /\ last.op = "finalize_job_run"
    /\ last.ret = "raise"
    /\ last.exc.code = ConditionalCheckFailed
    /\ Finalized(table, last.key)
    /\ table[last.key].status = "FAILED"

----------------------------------------------------------------------------
(* Claims on the interleaved runtime *)

RuntimeOps ==
    {"acquire_lock", "release_lock", "begin_job_run", "finalize_job_run",
     "record_attempt_started", "record_attempt_finished"}

\* the store carried out the write of the step that has just returned normally
WriteAccepted(op, key) ==
    CASE op \in {"acquire_lock", "begin_job_run", "record_attempt_started"} ->
            key \notin DOMAIN table /\ key \in DOMAIN table'
      [] op = "release_lock" -> key \notin DOMAIN table'
      [] op = "finalize_job_run" -> ~Finalized(table, key) /\ Finalized(table', key)
      [] op = "record_attempt_finished" ->
            key \in DOMAIN table /\ "finished_at" \in DOMAIN table'[key]

\* C11: no runtime operation swallows a store error: a call the store fails
\* raises that very error and writes nothing; acquire_lock returns False only
\* on a refused condition (the key's item exists); and a call returns
\* normally only when the store carried out its write.
C11_NoStoreErrorSwallowed ==
    [][last'.op \in RuntimeOps =>
        /\ last'.fault # NoFault
             => (last'.ret = "raise" /\ last'.exc = FaultError(last'.fault) /\ table' = table)
        /\ (last'.op = "acquire_lock" /\ last'.ret = "False")
             => (last'.fault = NoFault /\ last'.key \in DOMAIN table /\ table' = table)
        /\ (last'.ret # "raise" /\ ~(last'.op = "acquire_lock" /\ last'.ret = "False"))
             => (last'.fault = NoFault /\ WriteAccepted(last'.op, last'.key))]_vars

\* acquire_lock on a held key has just been failed by the store, beside a
\* JobRun and an Attempt record
C11_Witness ==
    /\ last.op = "acquire_lock"
    /\ last.fault # NoFault
    /\ last.ret = "raise"
    /\ last.key \in DOMAIN table
    /\ JobRunKeys # {}
    /\ AttemptKeys # {}

\* C12: release_lock is idempotent: answered by the store on a key that has
\* no lock item it returns without raising and leaves the table unchanged,
\* and a second release_lock right after one on the same key leaves the
\* table as the first one left it.
C12_ReleaseIdempotent ==
    [][(last'.op = "release_lock" /\ last'.fault = NoFault) =>
        /\ last'.ret = "None"
        /\ last'.key \notin DOMAIN table'
        /\ last'.key \notin DOMAIN table => table' = table
        /\ (last.op = "release_lock" /\ last.fault = NoFault /\ last.key = last'.key)
             => table' = table]_vars

\* release_lock has just returned for a key that never had a lock item,
\* while another key is locked and a JobRun record exists
C12_Witness ==
    /\ last.op = "release_lock"
    /\ last.ret = "None"
    /\ \E n \in NovaIds : last.key = LockKeyOf(n)
    /\ \E key \in LockKeys : LockKeyOf(key) \in DOMAIN table
    /\ JobRunKeys # {}

\* C13: a record_attempt_started that returns adds exactly one new Attempt
\* record and leaves every item already in the table as it was, so recording
\* attempt n+1 never touches the record of attempt n; and no operation
\* removes an Attempt record.
C13_StartOnlyAdds ==
    [][/\ AttemptKeys \subseteq DOMAIN table'
       /\ (last'.op = "record_attempt_started" /\ last'.ret # "raise") =>
            /\ last'.key \notin DOMAIN table
            /\ DOMAIN table' = DOMAIN table \cup {last'.key}
            /\ table'[last'.key].entity_type = "Attempt"
            /\ \A k \in DOMAIN table : table'[k] = table[k]]_vars

\* attempt 2 has just been recorded beside the FAILED record of attempt 1
C13_Witness ==
    /\ last.op = "record_attempt_started"
    /\ last.ret # "raise"
    /\ table[last.key].attempt_no = 2
    /\ \E k \in AttemptKeys : table[k].attempt_no = 1 /\ table[k].status = "FAILED"

\* C14: record_attempt_started and record_attempt_finished leave every JobRun
\* record as it was; after an attempt is finished as FAILED with duration_ms
\* 123 and classification RETRYABLE, its record is FAILED with that duration
\* and error, and every JobRun record that was RUNNING is still RUNNING with
\* no ended_at.
C14_AttemptOpsLeaveJobRun ==
    [][last'.op \in {"record_attempt_started", "record_attempt_finished"} =>
        /\ \A k \in JobRunKeys : k \in DOMAIN table' /\ table'[k] = table[k]
        /\ (last'.op = "record_attempt_finished" /\ last'.ret # "raise") =>
             /\ table'[last'.key].status = "FAILED"
             /\ table'[last'.key].duration_ms = 123
             /\ table'[last'.key].error.error_classification = "RETRYABLE"
             /\ \A k \in JobRunKeys :
                   table[k].status = "RUNNING"
                     => (table'[k].status = "RUNNING" /\ "ended_at" \notin DOMAIN table'[k])]_vars

\* an attempt has just been finished as FAILED while a JobRun is RUNNING
C14_Witness ==
    /\ last.op = "record_attempt_finished"
    /\ last.ret # "raise"
    /\ table[last.key].status = "FAILED"
    /\ table[last.key].duration_ms = 123
    /\ \E k \in JobRunKeys : table[k].status = "RUNNING" /\ "ended_at" \notin DOMAIN table[k]

\* C15: a JobRun record begin_job_run has created stays in the table under
\* every later runtime operation, release_lock with a key spelled like the
\* record's partition key included.
C15_JobRunNeverRemoved ==
    [][\A k \in JobRunRecords :
         k \in DOMAIN table' /\ table'[k].entity_type = "JobRun"]_vars

\* release_lock has just been answered for the key string that is the
\* partition key of a finalized JobRun, which is still there
C15_Witness ==
    /\ last.op = "release_lock"
    /\ last.ret = "None"
    /\ \E k \in JobRunRecords :
          /\ last.key = LockKeyOf(k[1])
          /\ Finalized(table, k)
          /\ Count(finalizeOk, k) = 1

\* C16: an Attempt record no record_attempt_finished has written has status
\* STARTED in every state, and every step that is not a
\* record_attempt_finished on its own key (starting or finishing another
\* attempt, finalize_job_run, acquire_lock, release_lock) leaves it as it is.
C16_UnfinishedStaysStarted ==
    /\ [](\A k \in AttemptKeys : Count(finishOk, k) = 0 => table[k].status = "STARTED")
    /\ [][\A k \in AttemptKeys :
            ~(last'.op = "record_attempt_finished" /\ last'.key = k)
              => (k \in DOMAIN table' /\ table'[k] = table[k])]_vars

\* an attempt is still STARTED after another attempt was finished, the
\* JobRun was finalized and a lock call was answered
C16_Witness ==
    /\ last.op \in {"acquire_lock", "release_lock"}
    /\ last.fault = NoFault
    /\ \E k \in AttemptKeys : Count(finishOk, k) = 0 /\ table[k].status = "STARTED"
    /\ \E k \in AttemptKeys : Count(finishOk, k) = 1 /\ table[k].status = "FAILED"
    /\ \E k \in JobRunRecords : Finalized(table, k)

----------------------------------------------------------------------------
(* Error classification claims *)

ErrorClassification == {"RETRYABLE", "TERMINAL", "QUARANTINE"}

\* C17: classify_exception returns one classification for every exception,
\* decided in this order: an instance of SuspectDataError is QUARANTINE;
\* otherwise an instance of ValidationError, ValueError or TypeError is
\* TERMINAL; otherwise a store error with a throttling code is RETRYABLE;
\* and an exception of none of these classes is RETRYABLE.
C17_ClassifyOrder ==
    last.op = "classify_exception" =>
        LET exc == last.exc
            suspect == IsInstance(exc, {"SuspectDataError"})
            invalid == IsInstance(exc, {"ValidationError", "ValueError", "TypeError"})
            store == IsInstance(exc, {"ClientError"})
        IN  /\ last.ret[1] \in ErrorClassification
            /\ suspect => last.ret[1] = "QUARANTINE"
            /\ (~suspect /\ invalid) => last.ret[1] = "TERMINAL"
            /\ (~suspect /\ ~invalid /\ store /\ _is_throttling(exc.code))
                 => last.ret[1] = "RETRYABLE"
            /\ (~suspect /\ ~invalid /\ ~store) => last.ret[1] = "RETRYABLE"

\* an exception that is both a SuspectDataError and a ValueError has just
\* been classified
C17_Witness ==
    /\ last.op = "classify_exception"
    /\ last.exc.kind = "SuspectValueError"
    /\ last.ret[1] = "QUARANTINE"

\* C18 as stated: a store error is classified RETRYABLE exactly when its
\* code is a throttling code or its HTTP status is 429 or any 5xx status,
\* and TERMINAL otherwise.
C18_RetryableIffThrottlingOr5xx ==
    (last.op = "classify_exception" /\ last.exc.kind = "ClientError") =>
        /\ last.ret[1] \in {"RETRYABLE", "TERMINAL"}
        /\ last.ret[1] = "RETRYABLE"
             <=> (\/ _is_throttling(last.exc.code)
                  \/ last.exc.http = 429
                  \/ last.exc.http \in 500..599)

\* C18 amended: a store error is classified RETRYABLE exactly when its code
\* is a throttling code or its HTTP status is one of 429, 500, 502, 503,
\* 504, and TERMINAL otherwise, any other 5xx status (501, 599) included.
C18_RetryableIffThrottlingOrListed ==
    (last.op = "classify_exception" /\ last.exc.kind = "ClientError") =>
        /\ last.ret[1] \in {"RETRYABLE", "TERMINAL"}
        /\ last.ret[1] = "RETRYABLE"
             <=> (\/ _is_throttling(last.exc.code)
                  \/ last.exc.http \in {429, 500, 502, 503, 504})

\* a store error with status 501 and no throttling code has just been
\* classified TERMINAL
C18_Witness ==
    /\ last.op = "classify_exception"
    /\ last.exc.kind = "ClientError"
    /\ last.exc.http = 501
    /\ last.exc.code = "InternalServerError"
    /\ last.ret[1] = "TERMINAL"

\* C19: every shape or validation failure the runtime raises, an
\* EnvelopeValidationError, a ValidationError or a ContractValidationError,
\* is classified TERMINAL by classify_exception.
C19_ShapeFailuresTerminal ==
    (/\ last.op = "classify_exception"
     /\ last.exc.kind \in {"EnvelopeValidationError", "ValidationError", "ContractValidationError"})
    => last.ret[1] = "TERMINAL"

\* the messages that differ from msg by one more whitespace character at the
\* front, at the end, or next to a whitespace character inside
PadVariants(msg) ==
    LET Whitespace == {" ", "\t", "\n"}
    IN  {<<w>> \o msg : w \in Whitespace}
          \cup {msg \o <<w>> : w \in Whitespace}
          \cup {SubSeq(msg, 1, i) \o <<w>> \o SubSeq(msg, i + 1, Len(msg)) :
                    i \in {j \in 1..Len(msg) : IsSpace(msg[j])}, w \in Whitespace}

\* C20: fingerprint_error depends only on the type name, the store error
\* code and the whitespace-normalized message: every input equal to the
\* fingerprinted one in these three parts has the same fingerprint, and so
\* has the input whose message carries one more leading, trailing or
\* repeated whitespace character.
C20_FingerprintOfParts ==
    last.op = "fingerprint_error" =>
        /\ \A y \in Exceptions \cup Strings :
              (/\ y.kind = last.exc.kind
               /\ y.code = last.exc.code
               /\ _normalize_message(y.msg) = _normalize_message(last.exc.msg))
              => fingerprint_error(y) = last.ret
        /\ \A m \in PadVariants(last.exc.msg) :
              fingerprint_error([last.exc EXCEPT !.msg = m]) = last.ret

\* a store error whose message has a doubled space has just been
\* fingerprinted, and an error of another HTTP status shares its fingerprint
C20_Witness ==
    /\ last.op = "fingerprint_error"
    /\ last.exc.kind = "ClientError"
    /\ last.exc.msg # _normalize_message(last.exc.msg)
    /\ \E y \in ClientErrors : y.http # last.exc.http /\ fingerprint_error(y) = last.ret

----------------------------------------------------------------------------
(* Lock expiry *)

C31_AcquireNeverOverwrites ==
    [][last'.op = "acquire_lock" =>
          \A k \in DOMAIN table :
              /\ k \in DOMAIN table'
              /\ table'[k] = table[k]
              /\ (k = last'.key /\ last'.fault = NoFault) => last'.ret = "False"]_vars

\* acquire_lock has returned False on a key whose item expired before now
C31_Witness ==
    /\ last.op = "acquire_lock"
    /\ last.ret = "False"
    /\ last.fault = NoFault
    /\ last.key \in DOMAIN table
    /\ table[last.key].expires_at < clock

----------------------------------------------------------------------------
(* Envelope claims *)

\* the context dict of the envelope at env, the empty dict when it has none
ContextOf(h, env) ==
    IF "context" \in DOMAIN h[env] /\ _is_dict(h, h[env].context)
    THEN h[h[env].context]
    ELSE <<>>

\* C21: ensure_correlation_id returns an envelope whose context has a
\* non-empty correlation_id; when the input already has a non-empty one the
\* output has the same one; and a call on the output of a previous
\* ensure_correlation_id returns the correlation_id that output has.
C21_EnsureKeepsCorrelationId ==
    [][last'.op = "ensure_correlation_id" =>
        /\ _is_dict(heap', last'.ret)
        /\ ~Falsy(Get(ContextOf(heap', last'.ret), "correlation_id"))
        /\ ~Falsy(Get(ContextOf(heap, envelope.ref), "correlation_id"))
             => Get(ContextOf(heap', last'.ret), "correlation_id") = Get(ContextOf(heap, envelope.ref), "correlation_id")
        /\ last.op = "ensure_correlation_id"
             => Get(ContextOf(heap', last'.ret), "correlation_id") = Get(ContextOf(heap, envelope.ref), "correlation_id")]_vars

\* a second ensure_correlation_id, drawing another uuid, has just returned
\* the envelope the first one built, with the first one's correlation_id
C21_Witness ==
    /\ last.op = "ensure_correlation_id"
    /\ envelope.calls = 2
    /\ last.ret = last.key[1]
    /\ Get(ContextOf(heap, last.ret), "correlation_id") \in {"u1", "u2"} \ {last.key[2]}

\* C22: a call of ensure_correlation_id or with_context leaves every dict that
\* existed before the call as it was, the input envelope and its 'input' and
\* 'context' maps among them, also when the call raises.
C22_InputNotMutated ==
    [][last'.op \in {"ensure_correlation_id", "with_context"} =>
        \A a \in DOMAIN heap : a \in DOMAIN heap' /\ heap'[a] = heap[a]]_vars

\* the first envelope had no context; ensure_correlation_id created one with
\* a uuid, and with_context then overrode that correlation_id in its result,
\* while both inputs are as they were
C22_Witness ==
    /\ envelope.calls = 2
    /\ last.op = "with_context"
    /\ last.ret # "raise"
    /\ "context" \notin DOMAIN heap["@1"]
    /\ Get(ContextOf(heap, last.key[1]), "correlation_id") \in {"u1", "u2"}
    /\ Get(ContextOf(heap, last.ret), "correlation_id") = "c2"

\* C23: the context of the envelope with_context returns has the keys of the
\* input context and of the updates whose value is not None; a key holds the
\* update's value when that is not None and the input context's value
\* otherwise; and 'input' has the value it has in the input envelope.
C23_WithContextOverrides ==
    [][(last'.op = "with_context" /\ last'.ret # "raise") =>
        LET updates == last'.key[2]
            named == {k \in DOMAIN updates : updates[k] # None}
            old == ContextOf(heap, envelope.ref)
            new == ContextOf(heap', last'.ret)
        IN  /\ "context" \in DOMAIN heap'[last'.ret]
            /\ _is_dict(heap', heap'[last'.ret].context)
            /\ DOMAIN new = DOMAIN old \cup named
            /\ \A k \in DOMAIN new : new[k] = IF k \in named THEN updates[k] ELSE old[k]
            /\ "input" \in DOMAIN heap'[last'.ret] <=> "input" \in DOMAIN heap[envelope.ref]
            /\ "input" \in DOMAIN heap[envelope.ref]
                 => IF _is_dict(heap, heap[envelope.ref].input)
                    THEN /\ _is_dict(heap', heap'[last'.ret].input)
                         /\ heap'[heap'[last'.ret].input] = heap[heap[envelope.ref].input]
                    ELSE heap'[last'.ret].input = heap[envelope.ref].input]_vars

\* with_context(envelope, correlation_id=None, job_run_id="jr1") has returned:
\* the result keeps correlation_id "abc" and workflow_name "W" and has the new
\* job_run_id, and carries the input map
C23_Witness ==
    /\ last.op = "with_context"
    /\ last.ret # "raise"
    /\ last.key[2] = [correlation_id |-> None, job_run_id |-> "jr1"]
    /\ ContextOf(heap, last.ret) =
           [correlation_id |-> "abc", workflow_name |-> "W", job_run_id |-> "jr1"]
    /\ "input" \in DOMAIN heap[last.ret]
    /\ _is_dict(heap, heap[last.ret].input)

\* C24: envelope_ok returns True when its argument is a map with a map-valued
\* 'input', a map-valued 'context' and a non-empty context.correlation_id,
\* and raises EnvelopeValidationError when it is not; it returns nothing else.
C24_EnvelopeOkTrueOrRaises ==
    last.op = "envelope_ok" =>
        IF LET env == last.key[1]
           IN  /\ env \in DOMAIN heap
               /\ {"input", "context"} \subseteq DOMAIN heap[env]
               /\ heap[env].input \in DOMAIN heap
               /\ heap[env].context \in DOMAIN heap
               /\ "correlation_id" \in DOMAIN heap[heap[env].context]
               /\ heap[heap[env].context].correlation_id \notin {None, ""}
        THEN last.ret = "True" /\ last.exc = NoExc
        ELSE last.ret = "raise" /\ last.exc.kind = "EnvelopeValidationError"

\* envelope_ok has just raised on an envelope with a dict 'input' and a dict
\* 'context' whose correlation_id is the empty string
C24_Witness ==
    /\ last.op = "envelope_ok"
    /\ last.ret = "raise"
    /\ _is_dict(heap, last.key[1])
    /\ "input" \in DOMAIN heap[last.key[1]]
    /\ _is_dict(heap, heap[last.key[1]].input)
    /\ ContextOf(heap, last.key[1]) = [correlation_id |-> "", workflow_name |-> "W"]

----------------------------------------------------------------------------
(* Record claims *)

\* C25: every JobRun record in the store has a non-empty correlation_id,
\* begin_job_run writing nothing when it is given an empty one.
C25_JobRunHasCorrelationId ==
    \A key \in JobRunRecords :
        "correlation_id" \in DOMAIN table[key] /\ ~Falsy(table[key].correlation_id)

\* C26: no Attempt record with status SUCCEEDED or STARTED has an error
\* field.
C26_ErrorOnlyOnFailure ==
    \A key \in DOMAIN table :
        /\ "entity_type" \in DOMAIN table[key]
        /\ table[key].entity_type = "Attempt"
        /\ table[key].status \in {"SUCCEEDED", "STARTED"}
        => "error" \notin DOMAIN table[key]

\* C32: finalize_job_run adds no item to the store, and after it every
\* record under a JobRun key carries the started_at, correlation_id and
\* idempotency_key begin_job_run writes.
C32_FinalizeNeverCreates ==
    [][last'.op = "finalize_job_run" =>
          /\ DOMAIN table' = DOMAIN table
          /\ \A key \in DOMAIN table' \cap JobRunKeySpace :
                {"started_at", "correlation_id", "idempotency_key"} \subseteq DOMAIN table'[key]]_vars

\* C33: the store holds at most one Attempt record for each (nova_id,
\* job_run_id, task_name, attempt_no), also after two deliveries of the same
\* step invocation have called record_attempt_started.
C33_OneRecordPerAttempt ==
    \A k1, k2 \in AttemptKeys :
        /\ k1[1] = k2[1]
        /\ table[k1].job_run_id = table[k2].job_run_id
        /\ table[k1].task_name = table[k2].task_name
        /\ table[k1].attempt_no = table[k2].attempt_no
        => k1 = k2

\* C34: the store holds at most one JobRun record for each (nova_id,
\* workflow_name, idempotency_key), also after begin_job_run has been called
\* again with the same three values and no job_run_id.
C34_OneJobRunPerIdempotencyKey ==
    \A k1, k2 \in JobRunRecords :
        /\ k1[1] = k2[1]
        /\ table[k1].workflow_name = table[k2].workflow_name
        /\ table[k1].idempotency_key = table[k2].idempotency_key
        => k1 = k2

----------------------------------------------------------------------------
(* Logging claims *)

\* C27: a log record emitted with an envelope contains every standard
\* context field, idempotency_key among them as the module's documentation
\* has it, that the envelope's context has, with the context's value unless
\* the call passes a field of that name.
C27_RecordHasContextFields ==
    [][Len(logs'.records) > Len(logs.records) =>
        LET record == logs'.records[Len(logs'.records)]
            fields == last'.key[2]
            ctx == ContextOf(heap, envelope.ref)
        IN  _is_dict(heap, envelope.ref) =>
              \A f \in _STANDARD_CTX_FIELDS \cup {"idempotency_key"} :
                (f \in DOMAIN ctx /\ ctx[f] # None) =>
                  /\ f \in DOMAIN record
                  /\ f \notin DOMAIN fields => record[f] = ctx[f]]_vars

\* C29: a record_attempt_finished the store carries out on a started
\* attempt succeeds whatever the status of the other attempts of the step,
\* so in either order, and changes no record but its own.
C29_FinishInAnyOrder ==
    [][(last'.op = "record_attempt_finished" /\ last'.fault = NoFault) =>
        /\ last'.key \in AttemptKeys => (last'.ret = "None" /\ table'[last'.key].status = "FAILED")
        /\ DOMAIN table' = DOMAIN table
        /\ \A k \in DOMAIN table \ {last'.key} : table'[k] = table[k]]_vars

\* attempts 1 and 2 of one step were started and each was finished once;
\* the finish of attempt 1 came last, after that of attempt 2
C29_Witness ==
    /\ last.op = "record_attempt_finished"
    /\ last.ret = "None"
    /\ table[last.key].attempt_no = 1
    /\ \E k \in AttemptKeys :
          /\ table[k].attempt_no = 2
          /\ table[k].task_name = table[last.key].task_name
          /\ table[k].job_run_id = table[last.key].job_run_id
          /\ table[k].status = "FAILED"
          /\ Count(finishOk, k) = 1
          /\ Count(finishOk, last.key) = 1

----------------------------------------------------------------------------
(* task_router claims *)

\* C28: in a task_router invocation the step runs only when the STARTED
\* record is in the store; the output is returned only when the SUCCEEDED
\* record is in the store, and it is the step's output; an exception of task
\* resolution or of the step is followed by the put of a FAILED record and
\* leaves main as the same exception; and an invocation that built its
\* recorder and none of whose puts failed ends with a SUCCEEDED or FAILED
\* record in the store.
C28_AttemptRecordsBracketStep ==
    [][LET InvocationRecord(tbl, r, status) ==
               \E key \in DOMAIN tbl :
                   /\ tbl[key].entity_type = "Attempt"
                   /\ tbl[key].job_run_id = r.recorder.job_run_id
                   /\ tbl[key].task_name = r.state_name
                   /\ tbl[key].attempt_no = r.attempt_no
                   /\ tbl[key].status = status
       IN
       /\ (router.pc = "started" /\ router'.pc # "started")
            => InvocationRecord(table, router, "STARTED")
       /\ (router.pc # "returned" /\ router'.pc = "returned")
            => InvocationRecord(table, router, "SUCCEEDED") /\ router'.out = router.out
       /\ (router.pc = "excepted" /\ router'.pc = "failed")
            => InvocationRecord(table', router', "FAILED")
       /\ (router.pc = "failed" /\ router'.pc = "raised")
            => /\ InvocationRecord(table, router, "FAILED")
               /\ router.step_exc # NoExc => last'.exc = router.step_exc
       /\ (router.pc = "excepted" /\ router.step_exc # NoExc /\ router'.pc = "raised")
            => router'.fault # NoFault
       /\ (/\ router'.pc \in {"returned", "raised"}
           /\ router'.fault = NoFault
           /\ DOMAIN router'.recorder # {})
            => \/ InvocationRecord(table', router', "SUCCEEDED")
               \/ InvocationRecord(table', router', "FAILED")]_vars

\* an invocation for an unregistered task has ended: resolve_task's KeyError
\* left main, no put failed, and the store holds both the STARTED record and
\* the FAILED record, written at a later time
C28_Witness ==
    /\ router.pc = "raised"
    /\ router.fault = NoFault
    /\ router.state_name = "Unregistered"
    /\ last.exc.kind = "KeyError"
    /\ \A status \in {"STARTED", "FAILED"} :
          \E key \in DOMAIN table :
              /\ table[key].entity_type = "Attempt"
              /\ table[key].job_run_id = router.recorder.job_run_id
              /\ table[key].task_name = router.state_name
              /\ table[key].attempt_no = router.attempt_no
              /\ table[key].status = status

\* C35: once a task_router invocation has recorded SUCCEEDED or FAILED, the
\* store holds a single Attempt record for its (job_run_id, task_name,
\* attempt_no), and that record is not in status STARTED.
C35_TerminalReplacesStarted ==
    router.pc \in {"succeeded", "returned", "failed"} =>
        LET records == {key \in DOMAIN table :
                           /\ table[key].entity_type = "Attempt"
                           /\ table[key].job_run_id = router.recorder.job_run_id
                           /\ table[key].task_name = router.state_name
                           /\ table[key].attempt_no = router.attempt_no}
        IN  /\ Cardinality(records) = 1
            /\ \A key \in records : table[key].status # "STARTED"
\* C36: every invocation being of the one execution arn:states:1, all Attempt
\* records in the store carry the same job_run_id, and it is the job_run_id
\* of the JobRun record the BeginJobRun step wrote.
C36_OneJobRunIdPerExecution ==
    \A k1, k2 \in DOMAIN table :
        /\ table[k1].entity_type = "Attempt"
        /\ table[k2].entity_type \in {"Attempt", "JobRun"}
        => table[k1].job_run_id = table[k2].job_run_id
\* C37: the FAILED record the task_router puts after the step raised an
\* exception of a type the taxonomy does not name (a KeyError) has
\* error_type RETRYABLE.
C37_UnrecognizedIsRetryable ==
    [][(router.pc = "excepted" /\ router.exc.kind = "KeyError" /\ router'.pc = "failed") =>
          /\ last'.key \in DOMAIN table'
          /\ table'[last'.key].status = "FAILED"
          /\ table'[last'.key].error_type = "RETRYABLE"]_vars
\* C38: an invocation whose event lacks 'context', context.state_name or
\* context.execution_arn leaves main with KeyError at once: nothing is
\* written to the store or the log, and the step does not run.
C38_MissingContextRaisesFirst ==
    [][(/\ router'.n = router.n + 1
        /\ \/ "context" \notin DOMAIN router'.event
           \/ "state_name" \notin DOMAIN router'.event.context
           \/ "execution_arn" \notin DOMAIN router'.event.context)
       => /\ router'.pc = "raised"
          /\ router'.exc.kind = "KeyError"
          /\ last' = Step("main", NoKey, "raise", router'.exc, NoFault)
          /\ table' = table
          /\ logs' = logs]_vars

\* main was invoked with an event whose context has no state_name, the store
\* holding the records of an earlier invocation, and raised KeyError
C38_Witness ==
    /\ router.pc = "raised"
    /\ last.op = "main"
    /\ "context" \in DOMAIN router.event
    /\ "state_name" \notin DOMAIN router.event.context
    /\ router.exc = KeyError("state_name")
    /\ table # <<>>

----------------------------------------------------------------------------
(* Key claims *)

\* C39: _attempt_sk gives two different Attempt identities (job_run_id,
\* task_name, attempt_no, started_at) different sort keys, and _jobrun_sk
\* gives two different JobRun identities (workflow_name, started_at,
\* job_run_id) different sort keys.
C39_KeysInjective ==
    last.op \in {"_attempt_sk", "_jobrun_sk"} =>
        (last.ret[1] = last.ret[2] => last.key[1] = last.key[2])

====
